---------------------------- MODULE Spec2Model ----------------------------
(***************************************************************************)
(* Calgary water-main map: the risk/consequence scoring engine             *)
(* (risk_consequence.js) and the map's derived-attribute cache, view-state *)
(* codec and raster-tile synchroniser (map.js).                            *)
(*                                                                         *)
(* Conventions.                                                            *)
(*  - A JavaScript string is a sequence of one-character strings.          *)
(*  - null / undefined / NaN is the empty sequence Null; a present value v *)
(*    is the one-element sequence Some(v).                                 *)
(*  - A JavaScript number is an integer count of 1/Unit (five decimal    *)
(*    places); install years and ages, always whole, are plain integers.  *)
(*  - Fractional scores (PoF sums, LoF/CoF overrides) are integers in      *)
(*    tenths: 15 stands for 1.5.                                           *)
(*  - risk_consequence.js holds several RiskConsequenceModel classes; the  *)
(*    suffix A names the class of lines 1-391 (the one with sanityCheck),  *)
(*    the suffix C the override-capable class of lines 734-980.            *)
(***************************************************************************)
EXTENDS Integers, Sequences, FiniteSets, TLC

VARIABLES
    call,            \* scoring engine: the last compute call, [fn, args, out]
    comboOverrides,  \* scoring engine C: this._comboOverrides
    binPrev,         \* the riskBinFromScores call before the last, [pof, cof, bin]
    binCur,          \* the last riskBinFromScores call, [pof, cof, bin]
    filterState,     \* map.js filterState: basemapEnabled, overlay and the three Sets
    urlState,        \* map.js urlState: initialized, transform [k, x, y], pending
    search,          \* window.location.search
    shared,          \* what another window decodes from the URL, or Null
    features,        \* the features of the dataset: [properties, derived]
    renders,         \* how many times render() has run its feature loop
    derivedWrites,   \* per feature, how many times f._derived has been assigned
    display,         \* per path, whether updateSymbology left it displayed
    page,            \* main(): the two fetches, the status and error elements, the legend
    handler,         \* the statement the zoom handler is at, or "idle"
    layers,          \* the transforms set on the vector layer and on the tile layer
    frames,          \* how many animation-frame callbacks of scheduleUrlWrite are waiting
    projection,      \* the Mercator projection render() fitted
    currentTransform,\* render()'s currentTransform
    tileImgs,        \* the img elements of the tile layer
    tileCall         \* the last updateTiles call: [skipped, tiles, before], or Null

scoreVars == <<call, comboOverrides, binPrev, binCur>>

viewVars == <<filterState, urlState, search, shared>>

dataVars == <<features, renders, derivedWrites>>

symVars == <<display>>

loopVars == <<page, handler, layers, frames>>

tileVars == <<projection, currentTransform, tileImgs, tileCall>>

vars == <<scoreVars, viewVars, dataVars, tileVars, symVars, loopVars>>

----------------------------------------------------------------------------
(* Values *)

Null == <<>>

Some(v) == <<v>>

IsNull(o) == o = <<>>

Val(o) == o[1]

\* a ?? b
Coalesce(a, b) == IF IsNull(a) THEN b ELSE a

Min2(a, b) == IF a <= b THEN a ELSE b

Max2(a, b) == IF a >= b THEN a ELSE b

\* the fixed-point scale of numbers
Unit == 10 ^ 5

\* Math.round of a number given in tenths (halves round up)
RoundTenths(t) == (t + 5) \div 10

----------------------------------------------------------------------------
(* Strings *)

LowerLetters == <<"a","b","c","d","e","f","g","h","i","j","k","l","m",
                  "n","o","p","q","r","s","t","u","v","w","x","y","z">>

UpperLetters == <<"A","B","C","D","E","F","G","H","I","J","K","L","M",
                  "N","O","P","Q","R","S","T","U","V","W","X","Y","Z">>

ToUpperChar(c) ==
    IF \E i \in 1..Len(LowerLetters) : LowerLetters[i] = c
    THEN UpperLetters[CHOOSE i \in 1..Len(LowerLetters) : LowerLetters[i] = c]
    ELSE c

ToUpperCase(s) == [i \in 1..Len(s) |-> ToUpperChar(s[i])]

ToLowerChar(c) ==
    IF \E i \in 1..Len(UpperLetters) : UpperLetters[i] = c
    THEN LowerLetters[CHOOSE i \in 1..Len(UpperLetters) : UpperLetters[i] = c]
    ELSE c

ToLowerCase(s) == [i \in 1..Len(s) |-> ToLowerChar(s[i])]

IsSpace(c) == c = " "

RECURSIVE TrimStart(_)
TrimStart(s) ==
    IF s # <<>> /\ IsSpace(Head(s)) THEN TrimStart(Tail(s)) ELSE s

RECURSIVE TrimEnd(_)
TrimEnd(s) ==
    IF s # <<>> /\ IsSpace(s[Len(s)]) THEN TrimEnd(SubSeq(s, 1, Len(s) - 1)) ELSE s

\* String.prototype.trim
Trim(s) == TrimEnd(TrimStart(s))

\* String.prototype.includes
Includes(s, sub) ==
    \E i \in 0..(Len(s) - Len(sub)) : SubSeq(s, i + 1, i + Len(sub)) = sub

\* (raw ?? "").toString()
StrOf(raw) == IF IsNull(raw) THEN <<>> ELSE Val(raw)

sUnknown == <<"U","n","k","n","o","w","n">>
sOther   == <<"O","t","h","e","r">>
sCI      == <<"C","I">>
sAC      == <<"A","C">>
sDI      == <<"D","I">>
sPDI     == <<"P","D","I">>
sYDI     == <<"Y","D","I">>
sST      == <<"S","T">>
sSTEEL   == <<"S","T","E","E","L">>
sPVC     == <<"P","V","C">>
sPVCG    == <<"P","V","C","G">>
sPE      == <<"P","E">>
sHDPE    == <<"H","D","P","E">>
sPCCP    == <<"P","C","C","P">>
sPCI     == <<"P","C","I">>
sECI     == <<"E","C","I">>
sCON     == <<"C","O","N">>
sCU      == <<"C","U">>
sCOPPER  == <<"C","O","P","P","E","R">>
sABAND   == <<"A","B","A","N","D">>
sOUT     == <<"O","U","T">>
sINACT   == <<"I","N","A","C","T">>

----------------------------------------------------------------------------
(* risk_consequence.js, shared by the classes *)

CURRENT_YEAR == 2025

\* mutant of clamp: the upper limit is not applied
clampLowOnly(n, lo, hi) == Max2(lo, n)

clamp(n, lo, hi) == Max2(lo, Min2(hi, n))

\* mutant of ageYears: the reference year moves on with every render
ageYearsAtRender(installYear) ==
    IF IsNull(installYear) THEN Null
    ELSE LET a == (CURRENT_YEAR + renders) - Val(installYear)
         IN  IF a >= 0 THEN Some(a) ELSE Null

\* installYear: Null or Some(year)
ageYears(installYear) ==
    IF IsNull(installYear) THEN Null
    ELSE LET a == CURRENT_YEAR - Val(installYear)
         IN  IF a >= 0 THEN Some(a) ELSE Null

\* mutant of riskBinFromScores: the thresholds are exclusive
riskBinExclusive(pof, cof) ==
    LET product == Val(Coalesce(pof, Some(2))) * Val(Coalesce(cof, Some(2)))
    IN  IF product < 4 THEN 1
        ELSE IF product < 8 THEN 2
        ELSE IF product < 12 THEN 3
        ELSE 4

\* pof, cof: Null or Some(1..4)
riskBinFromScores(pof, cof) ==
    LET product == Val(Coalesce(pof, Some(2))) * Val(Coalesce(cof, Some(2)))
    IN  IF product <= 4 THEN 1
        ELSE IF product <= 8 THEN 2
        ELSE IF product <= 12 THEN 3
        ELSE 4


----------------------------------------------------------------------------
(* risk_consequence.js, class A (lines 1-391) *)

normalizeMaterialA(raw) ==
    LET s == ToUpperCase(Trim(StrOf(raw)))
    IN  IF s = <<>> THEN sUnknown
        ELSE IF s = sCON THEN sPCCP
        ELSE IF s = sCOPPER THEN sCU
        ELSE s

\* returns tenths
pofDiameterAdjustmentFrom(materialCode, diamMm) ==
    LET mat == normalizeMaterialA(materialCode)
    IN  IF IsNull(diamMm) THEN 0
        ELSE IF mat \notin {sCI, sAC, sDI, sPDI, sYDI, sST, sSTEEL} THEN 0
        ELSE IF Val(diamMm) <= 150 * Unit THEN 10
        ELSE IF Val(diamMm) <= 305 * Unit THEN 5
        ELSE 0

pofMaterialBaseFrom(materialCode) ==
    LET mat == normalizeMaterialA(materialCode)
    IN  IF mat \in {sPVC, sPE, sHDPE} THEN 1
        ELSE IF mat \in {sPCCP, sPCI} THEN 1
        ELSE IF mat \in {sDI, sPDI, sYDI} THEN 2
        ELSE IF mat \in {sST, sSTEEL} THEN 2
        ELSE IF mat = sCU THEN 2
        ELSE IF mat = sCI THEN 3
        ELSE IF mat = sAC THEN 3
        ELSE 2

pofAgeAdjustmentFrom(materialCode, age) ==
    LET mat == normalizeMaterialA(materialCode)
    IN  IF IsNull(age) THEN 0
        ELSE IF mat = sCI /\ Val(age) > 50 THEN 1
        ELSE IF mat = sAC /\ Val(age) > 50 THEN 1
        ELSE 0

\* mutant of pofVintageOverrideFrom: the innermost window starts a year late
pofVintageOverrideLate(materialCode, installYear) ==
    LET mat == normalizeMaterialA(materialCode)
    IN  IF IsNull(installYear) THEN Null
        ELSE IF mat \notin {sPCCP, sPCI} THEN Null
        ELSE IF Val(installYear) >= 1976 /\ Val(installYear) <= 1978 THEN Some(4)
        ELSE IF Val(installYear) >= 1970 /\ Val(installYear) <= 1980 THEN Some(3)
        ELSE Null

pofVintageOverrideFrom(materialCode, installYear) ==
    LET mat == normalizeMaterialA(materialCode)
    IN  IF IsNull(installYear) THEN Null
        ELSE IF mat \notin {sPCCP, sPCI} THEN Null
        ELSE IF Val(installYear) >= 1975 /\ Val(installYear) <= 1978 THEN Some(4)
        ELSE IF Val(installYear) >= 1970 /\ Val(installYear) <= 1980 THEN Some(3)
        ELSE Null

\* x: Null or Some(tenths)
scoreFromFloat1to4(x) ==
    IF IsNull(x) THEN Null ELSE Some(clamp(RoundTenths(Val(x)), 1, 4))

pofScoreFromA(materialCode, installYear, diamMm) ==
    LET mat == Some(normalizeMaterialA(materialCode))
        age == ageYears(installYear)
        vintageOverride == pofVintageOverrideFrom(mat, installYear)
        base == pofMaterialBaseFrom(mat)
        diamAdj == pofDiameterAdjustmentFrom(mat, diamMm)
        ageAdj == pofAgeAdjustmentFrom(mat, age)
        preRound == 10 * base + diamAdj + 10 * ageAdj
    IN  IF ~IsNull(vintageOverride) THEN clamp(Val(vintageOverride), 1, 4)
        ELSE Val(Coalesce(scoreFromFloat1to4(Some(preRound)), Some(clamp(base, 1, 4))))

consequenceScoreFromA(materialCode, diamMm, lengthM) ==
    LET diamScore == IF IsNull(diamMm) THEN Null
                     ELSE IF Val(diamMm) <= 150 * Unit THEN Some(1)
                     ELSE IF Val(diamMm) <= 250 * Unit THEN Some(2)
                     ELSE IF Val(diamMm) <= 400 * Unit THEN Some(3)
                     ELSE Some(4)
        s0 == Val(Coalesce(diamScore, Some(2)))
        mat == normalizeMaterialA(materialCode)
        s1 == IF mat \in {sPCI, sPCCP} THEN 4 ELSE s0
        s2 == IF mat \in {sST, sSTEEL} /\ ~IsNull(diamMm) /\ Val(diamMm) >= 400 * Unit
              THEN Max2(s1, 4) ELSE s1
        s3 == IF mat = sCU THEN Min2(s2, 1) ELSE s2
        s4 == IF mat = sAC THEN Max2(s3, 2) ELSE s3
        s5 == IF mat \in {sPVC, sPE, sHDPE} THEN Min2(s4, 3) ELSE s4
        s6 == IF mat \in {sCI, sDI, sPDI, sYDI} THEN Max2(s5, 2) ELSE s5
    IN  Val(Coalesce(scoreFromFloat1to4(Some(10 * s6)),
                     IF ~IsNull(diamScore) THEN Some(clamp(Val(diamScore), 1, 4)) ELSE Some(2)))

\* a: [materialCode, diamMm, installYear, lengthM]
computeA(a) ==
    LET mat == Some(normalizeMaterialA(a.materialCode))
        iy == a.installYear
        age == ageYears(iy)
        pofVintageOverride == pofVintageOverrideFrom(mat, iy)
        pofBaseMaterial == pofMaterialBaseFrom(mat)
        pofDiamAdj == pofDiameterAdjustmentFrom(mat, a.diamMm)
        pofAgeAdj == pofAgeAdjustmentFrom(mat, age)
        pofPreRound == IF ~IsNull(pofVintageOverride) THEN 10 * Val(pofVintageOverride)
                       ELSE 10 * pofBaseMaterial + pofDiamAdj + 10 * pofAgeAdj
        pof == IF ~IsNull(pofVintageOverride) THEN clamp(Val(pofVintageOverride), 1, 4)
               ELSE Val(Coalesce(scoreFromFloat1to4(Some(pofPreRound)),
                                 Some(clamp(pofBaseMaterial, 1, 4))))
        cof == consequenceScoreFromA(mat, a.diamMm, a.lengthM)
    IN  [pof |-> pof, cof |-> cof, riskBin |-> riskBinFromScores(Some(pof), Some(cof)),
         source |-> "doc", pofSource |-> "doc", cofSource |-> "doc"]

\* scoreFromFloat01to4(x), class A, lines 197-200: an alias
scoreFromFloat01to4A(x) == scoreFromFloat1to4(x)

SanityInput(m, d, y) ==
    [materialCode |-> Some(m), diamMm |-> Some(d * Unit), installYear |-> Some(y), lengthM |-> Null]

SanityExpect(p, c, r) == [pof |-> p, cof |-> c, riskBin |-> r]

sanityCases ==
    << [input |-> SanityInput(sCI, 150, 1960),   expect |-> SanityExpect(4, 2, 2)],
       [input |-> SanityInput(sAC, 150, 1960),   expect |-> SanityExpect(4, 2, 2)],
       [input |-> SanityInput(sDI, 150, 1990),   expect |-> SanityExpect(3, 2, 2)],
       [input |-> SanityInput(sPVC, 150, 1990),  expect |-> SanityExpect(1, 1, 1)],
       [input |-> SanityInput(sPCCP, 600, 1976), expect |-> SanityExpect(4, 4, 4)],
       [input |-> SanityInput(sPCCP, 600, 1986), expect |-> SanityExpect(1, 4, 2)] >>

\* one iteration of the loop of sanityCheck
sanityResult(c) ==
    CHOOSE r \in {[got  |-> [pof |-> out.pof, cof |-> out.cof, riskBin |-> out.riskBin],
                   pass |-> /\ out.pof = c.expect.pof
                            /\ out.cof = c.expect.cof
                            /\ out.riskBin = c.expect.riskBin] :
                      out \in {computeA(c.input)}} : TRUE

sanityCheck ==
    LET results == [i \in 1..Len(sanityCases) |-> sanityResult(sanityCases[i])]
        failed == {i \in 1..Len(sanityCases) : ~results[i].pass}
    IN  [ok |-> failed = {}, failedCount |-> Cardinality(failed), results |-> results]

----------------------------------------------------------------------------
(* risk_consequence.js, class C (lines 734-980, with combination overrides) *)

normalizeMaterialC(raw) ==
    LET s == ToUpperCase(Trim(StrOf(raw)))
    IN  IF s = <<>> THEN sUnknown ELSE s

\* returns tenths
pofSizeUpliftFrom(materialCode, diamMm) ==
    LET mat == normalizeMaterialC(materialCode)
    IN  IF IsNull(diamMm) THEN 0
        ELSE IF mat \notin {sDI, sPDI, sYDI, sST, sSTEEL, sCI, sAC} THEN 0
        ELSE IF Val(diamMm) <= 150 * Unit THEN 10
        ELSE IF Val(diamMm) <= 305 * Unit THEN 5
        ELSE 0

baseByMaterialC(mat) ==
    IF mat \in {sPVC, sPE, sHDPE} THEN 1
    ELSE IF mat \in {sDI, sPDI, sYDI, sST, sSTEEL} THEN 2
    ELSE IF mat \in {sCI, sAC} THEN 3
    ELSE IF mat \in {sPCI, sPCCP} THEN 1
    ELSE IF mat \in {sCU, sCOPPER} THEN 2
    ELSE 2

\* the status marker test of pofScoreFrom
statusBump(status) ==
    IF Includes(status, sABAND) \/ Includes(status, sOUT) \/ Includes(status, sINACT)
    THEN 10 ELSE 0

pofScoreFromC(materialCode, installYear, statusInd, diamMm) ==
    LET mat == normalizeMaterialC(materialCode)
        iy == installYear
        age == ageYears(iy)
        status == ToUpperCase(Trim(StrOf(statusInd)))
        t0 == 10 * baseByMaterialC(mat)
        t1 == t0 + pofSizeUpliftFrom(Some(mat), diamMm)
        t2 == IF IsNull(age) THEN t1
              ELSE t1 + (IF mat = sCI /\ Val(age) > 50 THEN 10 ELSE 0)
                      + (IF mat = sAC /\ Val(age) > 50 THEN 20 ELSE 0)
        t3 == IF ~IsNull(iy) /\ mat \in {sPCI, sPCCP}
              THEN IF Val(iy) >= 1972 /\ Val(iy) <= 1978 THEN Max2(t2, 40)
                   ELSE IF Val(iy) >= 1970 /\ Val(iy) <= 1980 THEN Max2(t2, 30)
                   ELSE t2
              ELSE t2
        t4 == t3 + statusBump(status)
    IN  clamp(RoundTenths(t4), 1, 4)

consequenceScoreFromC(materialCode, diamMm, lengthM) ==
    LET s0 == IF IsNull(diamMm) THEN 2
              ELSE IF Val(diamMm) <= 150 * Unit THEN 1
              ELSE IF Val(diamMm) <= 250 * Unit THEN 2
              ELSE IF Val(diamMm) <= 400 * Unit THEN 3
              ELSE 4
        mat == normalizeMaterialC(materialCode)
        s1 == IF mat \in {sPCI, sPCCP} THEN Max2(s0, 4) ELSE s0
        s2 == IF mat = sST /\ ~IsNull(diamMm) /\ Val(diamMm) >= 400 * Unit THEN Max2(s1, 3) ELSE s1
        s3 == IF mat = sCU THEN Min2(s2, 1) ELSE s2
        s4 == IF ~IsNull(lengthM) /\ Val(lengthM) >= 500 * Unit THEN s3 + 1 ELSE s3
    IN  clamp(s4, 1, 4)

\* `${m}|${d}|${y}`
\* mutant of _makeComboKey: the parts are joined as they come
makeComboKeyAsGiven(materialRaw, diamRaw, yearRaw) ==
    StrOf(materialRaw) \o <<"|">> \o StrOf(diamRaw) \o <<"|">> \o StrOf(yearRaw)

makeComboKey(materialRaw, diamRaw, yearRaw) ==
    LET m == ToUpperCase(Trim(StrOf(materialRaw)))
        d == Trim(StrOf(diamRaw))
        y == Trim(StrOf(yearRaw))
    IN  m \o <<"|">> \o d \o <<"|">> \o y

\* x: Null or Some(tenths)
scoreFromFloat01to4(x) ==
    IF IsNull(x) THEN Null
    ELSE IF Val(x) <= 20 THEN Some(1)
    ELSE IF Val(x) <= 30 THEN Some(2)
    ELSE IF Val(x) <= 40 THEN Some(3)
    ELSE Some(4)

\* Map.prototype.get on this._comboOverrides (a function key -> entry)
OverrideGet(table, key) == IF key \in DOMAIN table THEN Some(table[key]) ELSE Null

\* mutant of combinedSource: a result with one override value is labelled csv
combinedSourceNoMix(pofSource, cofSource) ==
    IF pofSource = "csv" \/ cofSource = "csv" THEN "csv" ELSE "doc"

\* compute, line 947: the source label of the result
combinedSource(pofSource, cofSource) ==
    IF pofSource = "csv" /\ cofSource = "csv" THEN "csv"
    ELSE IF pofSource = "doc" /\ cofSource = "doc" THEN "doc"
    ELSE "mix"

computeRuleC(a) ==
    LET pof == pofScoreFromC(a.materialCode, a.installYear, a.statusInd, a.diamMm)
        cof == consequenceScoreFromC(a.materialCode, a.diamMm, a.lengthM)
    IN  [pof |-> pof, cof |-> cof, riskBin |-> riskBinFromScores(Some(pof), Some(cof)),
         source |-> "doc", pofSource |-> "doc", cofSource |-> "doc"]

\* a: [materialCode, diamMm, installYear, statusInd, lengthM, comboKeyParts]
\* overrides: Null or Some(table)
computeC(a, overrides) ==
    LET o == IF ~IsNull(overrides) /\ ~IsNull(a.comboKeyParts)
             THEN OverrideGet(Val(overrides),
                              makeComboKey(Val(a.comboKeyParts).materialRaw,
                                           Val(a.comboKeyParts).diamRaw,
                                           Val(a.comboKeyParts).yearRaw))
             ELSE Null
    IN  IF ~IsNull(o)
        THEN LET pof == scoreFromFloat01to4(Val(o).LoF)
                 cof == scoreFromFloat01to4(Val(o).CoF)
                 pofFinal == IF ~IsNull(pof) THEN Val(pof)
                             ELSE pofScoreFromC(a.materialCode, a.installYear, a.statusInd, a.diamMm)
                 cofFinal == IF ~IsNull(cof) THEN Val(cof)
                             ELSE consequenceScoreFromC(a.materialCode, a.diamMm, a.lengthM)
                 pofSource == IF ~IsNull(pof) THEN "csv" ELSE "doc"
                 cofSource == IF ~IsNull(cof) THEN "csv" ELSE "doc"
             IN  [pof |-> pofFinal, cof |-> cofFinal,
                  riskBin |-> riskBinFromScores(Some(pofFinal), Some(cofFinal)),
                  source |-> combinedSource(pofSource, cofSource),
                  pofSource |-> pofSource, cofSource |-> cofSource]
        ELSE computeRuleC(a)


----------------------------------------------------------------------------
(* Number(string) and the regular expression of parseInstallYear *)

Digits == <<"0","1","2","3","4","5","6","7","8","9">>

IsDigit(c) == \E i \in 1..Len(Digits) : Digits[i] = c

DigitVal(c) == (CHOOSE i \in 1..Len(Digits) : Digits[i] = c) - 1

AllDigits(s) == \A i \in 1..Len(s) : IsDigit(s[i])

RECURSIVE DigitsValue(_)
DigitsValue(s) ==
    IF s = <<>> THEN 0 ELSE 10 * DigitsValue(SubSeq(s, 1, Len(s) - 1)) + DigitVal(s[Len(s)])

\* the value of the fraction digits s in 1/Unit (digits past the fifth are dropped)
FractionValue(s) ==
    LET five == [i \in 1..5 |-> IF i <= Len(s) THEN s[i] ELSE "0"]
    IN  DigitsValue(five)

\* Number(s) for a string s: Null is NaN.  Decimal literals only (an optional
\* sign, digits, an optional point and digits); the empty string is 0.
ToNumber(s) ==
    LET t == Trim(s)
        neg == t # <<>> /\ Head(t) = "-"
        body == IF t # <<>> /\ Head(t) \in {"-", "+"} THEN Tail(t) ELSE t
        dots == {i \in 1..Len(body) : body[i] = "."}
        ip == IF dots = {} THEN body ELSE SubSeq(body, 1, (CHOOSE i \in dots : TRUE) - 1)
        fp == IF dots = {} THEN <<>> ELSE SubSeq(body, (CHOOSE i \in dots : TRUE) + 1, Len(body))
        mag == DigitsValue(ip) * Unit + FractionValue(fp)
    IN  IF t = <<>> THEN Some(0)
        ELSE IF Cardinality(dots) > 1 \/ ~AllDigits(ip) \/ ~AllDigits(fp) \/ Len(ip) + Len(fp) = 0
        THEN Null
        ELSE Some(IF neg THEN 0 - mag ELSE mag)

\* Number(v) for v a string or null: Number(null) is 0
NumberOf(v) == IF IsNull(v) THEN Some(0) ELSE ToNumber(Val(v))

\* \w of a regular expression
IsWordChar(c) ==
    \/ IsDigit(c)
    \/ c = "_"
    \/ \E i \in 1..Len(LowerLetters) : LowerLetters[i] = c \/ UpperLetters[i] = c

\* whether /\b(18|19|20)\d{2}\b/ matches s at position i
YearMatchAt(s, i) ==
    /\ i + 3 <= Len(s)
    /\ SubSeq(s, i, i + 1) \in {<<"1","8">>, <<"1","9">>, <<"2","0">>}
    /\ IsDigit(s[i + 2]) /\ IsDigit(s[i + 3])
    /\ (i = 1 \/ ~IsWordChar(s[i - 1]))
    /\ (i + 3 = Len(s) \/ ~IsWordChar(s[i + 4]))

----------------------------------------------------------------------------
(* map.js: parsing, binning and the scores cached in _derived *)

\* "LE" is the character <=, "GE" is >=, "ND" is the en dash
binLE150   == <<"LE","1","5","0">>
bin200_250 == <<"2","0","0","ND","2","5","0">>
bin300     == <<"3","0","0">>
bin400     == <<"4","0","0">>
bin500_600 == <<"5","0","0","ND","6","0","0">>
binGE750   == <<"GE","7","5","0">>
binLT20    == <<"<","2","0">>
bin20_50   == <<"2","0","ND","5","0">>
bin50_80   == <<"5","0","ND","8","0">>
binGE80    == <<"GE","8","0">>

MATERIAL_ORDER == <<sPVC, sCI, sYDI, sPDI, sST, sPVCG, sCON, sDI, sAC, sPE, sCU>>

normalizeMaterial(raw) ==
    LET s == ToUpperCase(Trim(StrOf(raw)))
    IN  IF s = <<>> THEN sUnknown ELSE s

parseDiameterMm(raw) ==
    LET n == ToNumber(Trim(StrOf(raw)))
    IN  IF IsNull(n) \/ Val(n) <= 0 THEN Null ELSE n

parseInstallYear(raw) ==
    LET s == StrOf(raw)
        hits == {i \in 1..Len(s) : YearMatchAt(s, i)}
    IN  IF hits = {} THEN Null
        ELSE LET i0 == CHOOSE i \in hits : \A j \in hits : i <= j
                 y == DigitsValue(SubSeq(s, i0, i0 + 3))
             IN  IF y < 1800 \/ y > CURRENT_YEAR THEN Null ELSE Some(y)

diameterBin(diamMm) ==
    IF IsNull(diamMm) THEN sUnknown
    ELSE IF Val(diamMm) <= 150 * Unit THEN binLE150
    ELSE IF Val(diamMm) <= 250 * Unit THEN bin200_250
    ELSE IF Val(diamMm) <= 300 * Unit THEN bin300
    ELSE IF Val(diamMm) <= 400 * Unit THEN bin400
    ELSE IF Val(diamMm) <= 600 * Unit THEN bin500_600
    ELSE binGE750

materialGroup(matCode) ==
    IF matCode = <<>> \/ matCode = sUnknown THEN sUnknown
    ELSE IF \E i \in 1..Len(MATERIAL_ORDER) : MATERIAL_ORDER[i] = matCode THEN matCode
    ELSE sOther

ageBin(age) ==
    IF IsNull(age) THEN sUnknown
    ELSE IF Val(age) < 20 THEN binLT20
    ELSE IF Val(age) < 50 THEN bin20_50
    ELSE IF Val(age) < 80 THEN bin50_80
    ELSE binGE80

pofScoreFromDerived(derived) ==
    LET status == ToUpperCase(Trim(derived.statusInd))
        ageScore == IF derived.ageBin = binLT20 THEN 1
                    ELSE IF derived.ageBin = bin20_50 THEN 2
                    ELSE IF derived.ageBin = bin50_80 THEN 3
                    ELSE IF derived.ageBin = binGE80 THEN 4
                    ELSE 2
        matAdj == IF derived.matCode \in {sPVC, sPE} THEN -1
                  ELSE IF derived.matCode \in {sDI, sPDI, sYDI, sST} THEN 0
                  ELSE IF derived.matCode \in {sCI, sAC, sECI, sPCI} THEN 1
                  ELSE 0
        score == 10 * (ageScore + matAdj) + statusBump(status)
    IN  clamp(RoundTenths(score), 1, 4)

consequenceScoreFromDerived(derived) ==
    LET diamMm == derived.diamMm
        lengthM == derived.lengthM
        s0 == IF IsNull(diamMm) THEN 2
              ELSE IF Val(diamMm) <= 150 * Unit THEN 1
              ELSE IF Val(diamMm) <= 250 * Unit THEN 2
              ELSE IF Val(diamMm) <= 400 * Unit THEN 3
              ELSE 4
        s1 == IF ~IsNull(lengthM) /\ Val(lengthM) >= 500 * Unit THEN s0 + 1 ELSE s0
    IN  clamp(s1, 1, 4)

\* the body of render's loop over the features: props are the raw GeoJSON
\* properties [diam, material, year, status_ind, length], each Null or Some(string)
DeriveFeature(props) ==
    LET diamMm == parseDiameterMm(props.diam)
        matCode == normalizeMaterial(props.material)
        iy == parseInstallYear(props.year)
        a == ageYears(iy)
        lengthN == ToNumber(Trim(StrOf(props.length)))
        base == [diamMm |-> diamMm, diamBin |-> diameterBin(diamMm),
                 matCode |-> matCode, matGroup |-> materialGroup(matCode),
                 installYear |-> iy, ageYears |-> a, ageBin |-> ageBin(a),
                 statusInd |-> StrOf(props.status_ind), lengthM |-> lengthN]
        pof == pofScoreFromDerived(base)
        cof == consequenceScoreFromDerived(base)
    IN  [diamMm |-> diamMm, diamBin |-> base.diamBin,
         matCode |-> matCode, matGroup |-> base.matGroup,
         installYear |-> iy, ageYears |-> a, ageBin |-> base.ageBin,
         statusInd |-> base.statusInd, lengthM |-> lengthN,
         pof |-> pof, cof |-> cof, riskBin |-> riskBinFromScores(Some(pof), Some(cof))]


----------------------------------------------------------------------------
(* Scoring engine: the inputs of the calls *)

Mm(n) == Some(n * Unit)

sLowerPaddedCI == <<" ","c","i"," ">>
sOther3        == <<"X","Y","Z">>
sActive        == <<"A","c","t","i","v","e">>
sAbandoned     == <<" ","a","b","a","n","d","o","n","e","d">>
sOutOfService  == <<"O","u","t"," ","o","f"," ","s","e","r","v","i","c","e">>

MaterialInputsA ==
    {Null, Some(<<>>), Some(sCI), Some(sLowerPaddedCI), Some(sAC), Some(sDI), Some(sST),
     Some(sSTEEL), Some(sPVC), Some(sPCCP), Some(sPCI), Some(sCON), Some(sCU),
     Some(sCOPPER), Some(sOther3)}

DiamInputsA == {Null, Mm(150), Mm(151), Mm(250), Mm(305), Mm(306), Mm(400), Mm(600)}

YearInputsA ==
    {Null} \cup {Some(y) : y \in {1960, 1969, 1970, 1974, 1975, 1976, 1978,
                                  1979, 1980, 1981, 1986, 1990, 2030}}

LengthInputsA == {Null, Mm(500)}

ArgsA ==
    [materialCode : MaterialInputsA, diamMm : DiamInputsA,
     installYear : YearInputsA, lengthM : LengthInputsA]

MaterialInputsC == {Null, Some(sCI), Some(sLowerPaddedCI), Some(sAC), Some(sDI), Some(sPVC),
                    Some(sPCCP), Some(sPCI), Some(sST), Some(sCU)}

DiamInputsC == {Null, Mm(150), Mm(305), Mm(600)}

YearInputsC == {Null} \cup {Some(y) : y \in {1960, 1969, 1970, 1975, 1976, 1978, 1980, 1986}}

StatusInputsC == {Null, Some(sActive), Some(sAbandoned), Some(sOutOfService)}

LengthInputsC == {Null, Some(500 * Unit - 1), Mm(500)}

\* the rows of the installed combination-override table: raw material, diameter
\* and year, and the LoF and CoF of the row in tenths (Null: missing)
OverrideRows ==
    << [m |-> sCI,   d |-> <<"1","5","0">>, y |-> <<"1","9","6","0">>, LoF |-> Some(15), CoF |-> Some(25)],
       [m |-> sAC,   d |-> <<"1","5","0">>, y |-> <<"1","9","6","0">>, LoF |-> Some(45), CoF |-> Some(15)],
       [m |-> sDI,   d |-> <<"1","5","0">>, y |-> <<"1","9","9","0">>, LoF |-> Some(20), CoF |-> Some(40)],
       [m |-> sPVC,  d |-> <<"1","5","0">>, y |-> <<"1","9","9","0">>, LoF |-> Some(21), CoF |-> Some(41)],
       [m |-> sPCCP, d |-> <<"6","0","0">>, y |-> <<"1","9","7","6">>, LoF |-> Some(30), CoF |-> Some(50)],
       [m |-> sPCCP, d |-> <<"6","0","0">>, y |-> <<"1","9","8","6">>, LoF |-> Some(31), CoF |-> Some(63)],
       [m |-> sST,   d |-> <<"4","0","0">>, y |-> <<>>,                LoF |-> Some(40), CoF |-> Some(3)],
       [m |-> sCU,   d |-> <<"2","5">>,     y |-> <<"2","0","0","1">>, LoF |-> Some(-10), CoF |-> Some(35)],
       [m |-> sCI,   d |-> <<"3","0","5">>, y |-> <<"1","9","6","0">>, LoF |-> Null,     CoF |-> Some(45)],
       [m |-> sPVC,  d |-> <<"6","0","0">>, y |-> <<"1","9","6","0">>, LoF |-> Some(25), CoF |-> Null],
       [m |-> sDI,   d |-> <<"3","0","5">>, y |-> <<"1","9","8","6">>, LoF |-> Null,     CoF |-> Null] >>

RowKey(r) == r.m \o <<"|">> \o r.d \o <<"|">> \o r.y

OverrideTable ==
    [k \in {RowKey(OverrideRows[i]) : i \in 1..Len(OverrideRows)} |->
        LET r == OverrideRows[CHOOSE i \in 1..Len(OverrideRows) : RowKey(OverrideRows[i]) = k]
        IN  [LoF |-> r.LoF, CoF |-> r.CoF]]

\* the raw key parts of a feature, as the dataset spells them (padded, lower case)
RawParts(r) ==
    [materialRaw |-> Some(<<" ">> \o ToLowerCase(r.m)), diamRaw |-> Some(r.d \o <<" ">>),
     yearRaw |-> Some(r.y)]

KeyPartsHit == {Some(RawParts(OverrideRows[i])) : i \in 1..Len(OverrideRows)}

KeyPartsMiss ==
    {Null,
     Some([materialRaw |-> Null, diamRaw |-> Null, yearRaw |-> Null]),
     Some([materialRaw |-> Some(sCI), diamRaw |-> Some(<<"1","5","0">>), yearRaw |-> Some(<<"1","9","6","1">>)])}

\* calls whose key is not in the table: the whole rule-based input space
ArgsCRule ==
    [materialCode : MaterialInputsC, diamMm : DiamInputsC, installYear : YearInputsC,
     statusInd : StatusInputsC, lengthM : LengthInputsC, comboKeyParts : {Null}]

\* calls with key parts: a sample of the rule-based inputs with every key
ArgsCKeyed ==
    [materialCode : {Some(sCI), Some(sPCCP)}, diamMm : {Mm(150), Mm(600)},
     installYear : {Some(1960), Some(1976)}, statusInd : {Null, Some(sAbandoned)},
     lengthM : {Null, Mm(500)}, comboKeyParts : KeyPartsHit \cup KeyPartsMiss]

ArgsC == ArgsCRule \cup ArgsCKeyed

sPadDiam == <<" ","2","0","0"," ">>
sDiam150 == <<"1","5","0">>
sDiam600 == <<"6","0","0",".","5">>
sDiamBad == <<"1","5","0","m","m">>
sDiamNeg == <<"-","5">>
sYear1960 == <<"1","9","6","0">>
sYearDate == <<"1","9","3","0","/","0","1","/","0","1">>
sYear2001 == <<"c","a"," ","2","0","0","1">>
sYearFuture == <<"2","0","3","0">>
sYearGlued == <<"1","2","0","1","9">>
sLen600 == <<"6","0","0",".","2","5">>
sLen12 == <<"1","2">>

\* raw GeoJSON properties of a feature
PropsInputs ==
    [diam : {Null, Some(<<>>), Some(sDiam150), Some(sPadDiam), Some(sDiam600), Some(sDiamBad), Some(sDiamNeg)},
     material : {Null, Some(sLowerPaddedCI), Some(sPVC), Some(sCON), Some(sOther3)},
     year : {Null, Some(sYear1960), Some(sYearDate), Some(sYear2001), Some(sYearFuture), Some(sYearGlued)},
     status_ind : {Null, Some(sActive), Some(sAbandoned)},
     length : {Null, Some(sLen600), Some(sLen12)}]

----------------------------------------------------------------------------
(* map.js: the view state and its URL codec *)

sNone        == <<"n","o","n","e">>
sRisk        == <<"r","i","s","k">>
sConsequence == <<"c","o","n","s","e","q","u","e","n","c","e">>
sTrue        == <<"t","r","u","e">>

\* the parameter names of the query string
pK   == <<"k">>
pX   == <<"x">>
pY   == <<"y">>
pBm  == <<"b","m">>
pOv  == <<"o","v">>
pDia == <<"d","i","a">>
pAge == <<"a","g","e">>
pMat == <<"m","a","t">>

\* the one member of a singleton set: The({e(x) : x \in {v}}) is e(v), with v
\* evaluated once
The(S) == CHOOSE x \in S : TRUE

\* a JavaScript Set is the sequence of its members in insertion order
SetFrom(seq) ==
    SelectSeq([i \in 1..Len(seq) |-> IF \E j \in 1..(i - 1) : seq[j] = seq[i] THEN Null ELSE Some(seq[i])],
              LAMBDA o : ~IsNull(o))

Members(set) == {Val(set[i]) : i \in 1..Len(set)}

SetAdd(set, v) == IF Some(v) \in {set[i] : i \in 1..Len(set)} THEN set ELSE Append(set, Some(v))

SetDelete(set, v) == SelectSeq(set, LAMBDA o : o # Some(v))

\* filterState as the script creates it (lines 197-203)
DefaultFilterState ==
    [basemapEnabled |-> TRUE,
     overlay |-> sNone,
     diameterBins |-> SetFrom(<<binLE150, bin200_250, bin300, bin400, bin500_600, binGE750, sUnknown>>),
     ageBins |-> SetFrom(<<binLT20, bin20_50, bin50_80, binGE80, sUnknown>>),
     materials |-> SetFrom(MATERIAL_ORDER \o <<sOther, sUnknown>>)]

\* d3.zoomIdentity
zoomIdentity == [k |-> Unit, x |-> 0, y |-> 0]

\* urlState as the script creates it (lines 45-49)
DefaultUrlState == [initialized |-> FALSE, transform |-> zoomIdentity, pending |-> FALSE]

\* String.prototype.split(sep) for a one-character separator
RECURSIVE Split(_, _)
Split(s, sep) ==
    IF \A i \in 1..Len(s) : s[i] # sep THEN <<s>>
    ELSE LET i == CHOOSE i \in 1..Len(s) : s[i] = sep /\ \A j \in 1..(i - 1) : s[j] # sep
         IN  <<SubSeq(s, 1, i - 1)>> \o Split(SubSeq(s, i + 1, Len(s)), sep)

\* Array.prototype.join(sep)
RECURSIVE Join(_, _)
Join(parts, sep) ==
    IF parts = <<>> THEN <<>>
    ELSE IF Len(parts) = 1 THEN parts[1]
    ELSE parts[1] \o sep \o Join(Tail(parts), sep)

\* URLSearchParams: the characters the serializer escapes, each with its escape
\* (one token per escape, "%3C" for "<"); a space is written "+"
Escapes ==
    << <<",", "%2C">>, <<"<", "%3C">>, <<"LE", "%E2%89%A4">>, <<"GE", "%E2%89%A5">>,
       <<"ND", "%E2%80%93">>, <<"=", "%3D">>, <<"&", "%26">>, <<"+", "%2B">>,
       <<"%", "%25">>, <<"?", "%3F">>, <<" ", "+">> >>

EncodeChar(c) ==
    IF \E i \in 1..Len(Escapes) : Escapes[i][1] = c
    THEN Escapes[CHOOSE i \in 1..Len(Escapes) : Escapes[i][1] = c][2]
    ELSE c

DecodeChar(c) ==
    IF \E i \in 1..Len(Escapes) : Escapes[i][2] = c
    THEN Escapes[CHOOSE i \in 1..Len(Escapes) : Escapes[i][2] = c][1]
    ELSE c

EncodeComponent(s) == [i \in 1..Len(s) |-> EncodeChar(s[i])]

DecodeComponent(s) == [i \in 1..Len(s) |-> DecodeChar(s[i])]

\* one name=value field of a query string, decoded
ParseField(f) ==
    IF \A i \in 1..Len(f) : f[i] # "=" THEN <<DecodeComponent(f), <<>>>>
    ELSE LET i == CHOOSE i \in 1..Len(f) : f[i] = "=" /\ \A j \in 1..(i - 1) : f[j] # "="
         IN  <<DecodeComponent(SubSeq(f, 1, i - 1)), DecodeComponent(SubSeq(f, i + 1, Len(f)))>>

\* new URLSearchParams(window.location.search): the list of (name, value) pairs
URLSearchParams(query) ==
    LET q == IF query # <<>> /\ Head(query) = "?" THEN Tail(query) ELSE query
    IN  The({[i \in 1..Len(fields) |-> ParseField(fields[i])] :
                fields \in {SelectSeq(Split(q, "&"), LAMBDA f : f # <<>>)}})

\* params.get(key): the first value of the name, or null
ParamsGet(params, key) ==
    IF \A i \in 1..Len(params) : params[i][1] # key THEN Null
    ELSE Some(params[CHOOSE i \in 1..Len(params) :
                        params[i][1] = key /\ \A j \in 1..(i - 1) : params[j][1] # key][2])

\* params.set(key, value): the first pair of the name takes the value, the
\* others of the name go; a new name is appended
ParamsSet(params, key, value) ==
    IF \A i \in 1..Len(params) : params[i][1] # key THEN Append(params, <<key, value>>)
    ELSE LET first == CHOOSE i \in 1..Len(params) :
                         params[i][1] = key /\ \A j \in 1..(i - 1) : params[j][1] # key
             marked == [i \in 1..Len(params) |->
                          IF i = first THEN Some(<<key, value>>)
                          ELSE IF params[i][1] = key THEN Null
                          ELSE Some(params[i])]
             kept == SelectSeq(marked, LAMBDA o : ~IsNull(o))
         IN  [i \in 1..Len(kept) |-> Val(kept[i])]

\* params.toString()
ParamsToString(params) ==
    Join([i \in 1..Len(params) |->
            EncodeComponent(params[i][1]) \o <<"=">> \o EncodeComponent(params[i][2])],
         <<"&">>)

\* the decimal digits of a natural number
RECURSIVE NatDigits(_)
NatDigits(n) ==
    IF n < 10 THEN <<Digits[n + 1]>> ELSE Append(NatDigits(n \div 10), Digits[(n % 10) + 1])

\* n rounded to a number with `digits` decimals (halves away from zero), in 1/Unit
RoundTo(n, digits) ==
    LET step == 10 ^ (5 - digits)
        mag == IF n < 0 THEN 0 - n ELSE n
        r == ((mag + step \div 2) \div step) * step
    IN  IF n < 0 THEN 0 - r ELSE r

\* Number.prototype.toFixed(digits) of the number n (in 1/Unit), digits <= 5
toFixed(n, digits) ==
    LET step == 10 ^ (5 - digits)
        mag == IF n < 0 THEN 0 - n ELSE n
        q == (mag + step \div 2) \div step
        ip == q \div (10 ^ digits)
        fp == q % (10 ^ digits)
    IN  (IF n < 0 THEN <<"-">> ELSE <<>>) \o NatDigits(ip) \o <<".">>
           \o [i \in 1..digits |-> Digits[((fp \div (10 ^ (digits - i))) % 10) + 1]]

\* trimmed.split(",").map((s) => s.trim()).filter((s) => s.length > 0)
CsvLabels(trimmed) ==
    The({SelectSeq([i \in 1..Len(parts) |-> Trim(parts[i])], LAMBDA s : Len(s) > 0) :
            parts \in {Split(trimmed, ",")}})

\* mutant of parseCsvParam: an absent parameter reads as an empty list
parseCsvParamAbsentEmpty(params, key) ==
    The({IF IsNull(raw) THEN Some(<<>>)
         ELSE IF Trim(Val(raw)) = <<>> THEN Some(<<>>)
         ELSE Some(CsvLabels(Trim(Val(raw)))) :
            raw \in {ParamsGet(params, key)}})

\* mutant of parseCsvParam: an empty value reads as an absent parameter
parseCsvParamEmptyAbsent(params, key) ==
    The({IF IsNull(raw) THEN Null
         ELSE IF Trim(Val(raw)) = <<>> THEN Null
         ELSE Some(CsvLabels(Trim(Val(raw)))) :
            raw \in {ParamsGet(params, key)}})

\* parseCsvParam(params, key): Null, or Some(list of labels)
parseCsvParam(params, key) ==
    The({IF IsNull(raw) THEN Null
         ELSE IF Trim(Val(raw)) = <<>> THEN Some(<<>>)
         ELSE Some(CsvLabels(Trim(Val(raw)))) :
            raw \in {ParamsGet(params, key)}})

\* readUrlStateIntoFilterState(): the filterState and urlState.transform it leaves,
\* given the ones it finds
readUrlStateIntoFilterState(query, fs, transform) ==
  The({
    LET k == NumberOf(ParamsGet(params, pK))
        x == NumberOf(ParamsGet(params, pX))
        y == NumberOf(ParamsGet(params, pY))
        bm == ParamsGet(params, pBm)
        ov == ToLowerCase(Trim(StrOf(ParamsGet(params, pOv))))
        dia == parseCsvParam(params, pDia)
        age == parseCsvParam(params, pAge)
        mat == parseCsvParam(params, pMat)
    IN  [transform |->
            IF ~IsNull(k) /\ Val(k) > 0 /\ ~IsNull(x) /\ ~IsNull(y)
            THEN [k |-> Val(k), x |-> Val(x), y |-> Val(y)]
            ELSE transform,
         filterState |->
            [basemapEnabled |->
                IF ~IsNull(bm) THEN (Val(bm) = <<"1">> \/ ToLowerCase(Val(bm)) = sTrue)
                ELSE fs.basemapEnabled,
             overlay |-> IF ov \in {sRisk, sConsequence, sNone} THEN ov ELSE fs.overlay,
             diameterBins |-> IF ~IsNull(dia) THEN SetFrom(Val(dia)) ELSE fs.diameterBins,
             ageBins |-> IF ~IsNull(age) THEN SetFrom(Val(age)) ELSE fs.ageBins,
             materials |-> IF ~IsNull(mat) THEN SetFrom(Val(mat)) ELSE fs.materials]]
    : params \in {URLSearchParams(query)}})

\* the members of a Set as an array: [...set]
Spread(set) == [i \in 1..Len(set) |-> Val(set[i])]

\* writeUrlState(transform): the window.location.search it leaves (the
\* components of a transform are numbers, so the branch that deletes k, x
\* and y is never taken)
writeUrlState(query, fs, transform) ==
    LET p0 == URLSearchParams(query)
        p1 == ParamsSet(ParamsSet(ParamsSet(p0, pK, toFixed(transform.k, 4)),
                                  pX, toFixed(transform.x, 2)),
                        pY, toFixed(transform.y, 2))
        p2 == ParamsSet(p1, pBm, IF fs.basemapEnabled THEN <<"1">> ELSE <<"0">>)
        p3 == ParamsSet(p2, pOv, fs.overlay)
        p4 == ParamsSet(p3, pDia, Join(Spread(fs.diameterBins), <<",">>))
        p5 == ParamsSet(p4, pAge, Join(Spread(fs.ageBins), <<",">>))
        p6 == ParamsSet(p5, pMat, Join(Spread(fs.materials), <<",">>))
    IN  <<"?">> \o ParamsToString(p6)

----------------------------------------------------------------------------
(* map.js: the raster tiles of the basemap *)

(* Exact arithmetic.  A rational is [n, d] in lowest terms with d > 0.  The     *)
(* projection is d3.geoMercator() after fitSize: the width of the world in      *)
(* base pixels, worldPx = 2^exp * sn / sd, and the position (cx, cy) of base     *)
(* pixel (0, 0) in the unit square of the Web-Mercator world.  A longitude is    *)
(* held as (lon + 180) / 360 and a latitude as its Mercator ordinate             *)
(* (1 - ln(tan + sec) / pi) / 2, which grows to the south: with these the        *)
(* logarithms and tangents of invert and latToTileY cancel exactly.             *)

TILE_MAX_Z == 19

Abs(n) == IF n < 0 THEN 0 - n ELSE n

RECURSIVE GCD(_, _)
GCD(a, b) == IF b = 0 THEN a ELSE GCD(b, a % b)

Rat(n, d) == The({[n |-> n \div g, d |-> d \div g] : g \in {GCD(Abs(n), d)}})

RatOf(i) == [n |-> i, d |-> 1]

RatAdd(a, b) ==
    The({Rat(a.n * (b.d \div g) + b.n * (a.d \div g), (a.d \div g) * b.d) : g \in {GCD(a.d, b.d)}})

RatNeg(a) == [n |-> 0 - a.n, d |-> a.d]

RatLE(a, b) == RatAdd(b, RatNeg(a)).n >= 0

\* Math.min, Math.max
RatMin(a, b) == IF RatLE(a, b) THEN a ELSE b

RatMax(a, b) == IF RatLE(a, b) THEN b ELSE a

RatFloor(a) == a.n \div a.d

\* floor(2^z * r / d) for 0 <= r < d, one binary digit at a time
RECURSIVE FracFloor(_, _, _)
FracFloor(r, d, z) ==
    IF z = 0 THEN 0
    ELSE ((2 * r) \div d) * (2 ^ (z - 1)) + FracFloor((2 * r) % d, d, z - 1)

\* Math.floor(a * 2 ** z)
FloorScaled(a, z) == (a.n \div a.d) * (2 ^ z) + FracFloor(a.n % a.d, a.d, z)

\* Math.round(Math.log2(p / q)): the m with 2^m <= (p / q) * sqrt(2) < 2^(m + 1)
RECURSIVE RoundLog2(_, _)
RoundLog2(p, q) ==
    IF 2 * p * p >= 4 * q * q THEN RoundLog2(p, 2 * q) + 1
    ELSE IF 2 * p * p < q * q THEN RoundLog2(2 * p, q) - 1
    ELSE 0

\* the size of the container, at its minimum (lines 688-690)
viewport == [w |-> 320, h |-> 240]

\* Math.round(z0 + Math.log2(transform.k)) clamped, lines 903-906
tileZoom(proj, transform) ==
    The({clamp((proj.exp - 8) + RoundLog2(proj.sn * k.n, proj.sd * k.d), 0, TILE_MAX_Z) :
            k \in {Rat(transform.k, Unit)}})

\* px / worldPx for a base-pixel coordinate px
WorldFraction(proj, px) == Rat(px.n * proj.sd, px.d * proj.sn * (2 ^ proj.exp))

\* projection.invert([x, y]) of d3.geoMercator: never null; a longitude
\* outside [-180, 180] is brought back into it by whole turns
projectionInvert(proj, x, y) ==
    The({[lon |-> IF u.n < 0 \/ u.n > u.d THEN RatAdd(u, RatOf(0 - RatFloor(u))) ELSE u,
          lat |-> RatAdd(proj.cy, WorldFraction(proj, y))] :
            u \in {RatAdd(proj.cx, WorldFraction(proj, x))}})

\* Math.floor(((lon + 180) / 360) * 2 ** z)
lonToTileX(lon, z) == FloorScaled(lon, z)

\* Math.floor(y * 2 ** z), y the Mercator ordinate of the latitude
latToTileY(lat, z) == FloorScaled(lat, z)

\* mutant of tileRange: the padded indices are not clamped
tileRangeUnclamped(lo, hi, n) == [min |-> lo - 1, max |-> hi + 1]

\* lines 924-927: the indices one tile beyond lo and hi, clamped to 0..n-1
tileRange(lo, hi, n) == [min |-> clamp(lo - 1, 0, n - 1), max |-> clamp(hi + 1, 0, n - 1)]

\* the tiles updateTiles(transform) asks for, lines 903-937; Null when it returns early
visibleTiles(proj, transform) ==
    LET z == tileZoom(proj, transform)
        x0 == Rat(0 - transform.x, transform.k)
        y0 == Rat(0 - transform.y, transform.k)
        x1 == Rat(viewport.w * Unit - transform.x, transform.k)
        y1 == Rat(viewport.h * Unit - transform.y, transform.k)
    IN  The({
          LET lonMin == RatMin(p[1].lon, p[2].lon)
              lonMax == RatMax(p[1].lon, p[2].lon)
              \* the greater latitude has the lesser ordinate
              latMax == RatMin(p[1].lat, p[2].lat)
              latMin == RatMax(p[1].lat, p[2].lat)
              n == 2 ^ z
          IN  The({IF xs.max < xs.min \/ ys.max < ys.min THEN Null
                   ELSE Some({<<z, tx, ty>> : tx \in xs.min..xs.max, ty \in ys.min..ys.max}) :
                      xs \in {tileRange(lonToTileX(lonMin, z), lonToTileX(lonMax, z), n)},
                      ys \in {tileRange(latToTileY(latMax, z), latToTileY(latMin, z), n)}})
          : p \in {<<projectionInvert(proj, x0, y0), projectionInvert(proj, x1, y1)>>}})

\* an img element of the tile layer: its bound key, the tile its src fetches,
\* and whether the last updateTiles call appended it
TileImg(key, isNew) == [key |-> key, src |-> key, isNew |-> isNew]

\* mutant of joinEnter: every datum enters
joinEnterAll(imgs, tiles) == tiles

\* d3 data join by key: the data without an element of their key
joinEnter(imgs, tiles) == tiles \ {img.key : img \in imgs}

\* d3 data join by key: the elements whose key is no datum
joinExit(imgs, tiles) == {img \in imgs : img.key \notin tiles}

\* the tile layer after the join of lines 939-953: exit removed, enter appended
joinTiles(imgs, tiles) ==
    {[img EXCEPT !.isNew = FALSE] : img \in imgs \ joinExit(imgs, tiles)}
        \cup {TileImg(key, TRUE) : key \in joinEnter(imgs, tiles)}

\* updateTiles(transform): the tile layer and the record of the call
updateTiles(proj, fs, transform, imgs) ==
    IF ~fs.basemapEnabled
    THEN [imgs |-> imgs, call |-> [skipped |-> TRUE, tiles |-> {}, before |-> {}]]
    ELSE The({IF IsNull(tiles)
              THEN [imgs |-> imgs, call |-> [skipped |-> TRUE, tiles |-> {}, before |-> {}]]
              ELSE [imgs |-> joinTiles(imgs, Val(tiles)),
                    call |-> [skipped |-> FALSE, tiles |-> Val(tiles),
                              before |-> {img.key : img \in imgs}]] :
                 tiles \in {visibleTiles(proj, transform)}})

----------------------------------------------------------------------------
(* map.js: symbology (what updateSymbology displays) and the zoom behaviour *)

\* mutant of minDiameterForZoomK: the two middle minimums change places
minDiameterForZoomKSwapped(k) ==
    IF k < 150000 THEN 400 * Unit
    ELSE IF k < 4 * Unit THEN 150 * Unit
    ELSE IF k < 8 * Unit THEN 250 * Unit
    ELSE 0

\* minDiameterForZoomK(k), lines 402-408
minDiameterForZoomK(k) ==
    IF k < 150000 THEN 400 * Unit
    ELSE IF k < 4 * Unit THEN 250 * Unit
    ELSE IF k < 8 * Unit THEN 150 * Unit
    ELSE 0

\* Set.prototype.has
SetHas(set, v) == \E i \in 1..Len(set) : set[i] = Some(v)

\* the display callback of updateSymbology, lines 878-892, for a path whose
\* feature has its _derived: TRUE for display null (shown), FALSE for "none"
displayStyle(derived, fs, minDiam) ==
    IF ~SetHas(fs.diameterBins, derived.diamBin) THEN FALSE
    ELSE IF ~SetHas(fs.materials, derived.matGroup) THEN FALSE
    ELSE IF ~SetHas(fs.ageBins, derived.ageBin) THEN FALSE
    ELSE IF minDiam <= 0 THEN TRUE
    ELSE IF IsNull(derived.diamMm) THEN FALSE
    ELSE Val(derived.diamMm) >= minDiam

\* updateSymbology(k), its style mode: line 840
styleMode(fs) == fs.overlay

\* updateSymbology(k), lines 837-893: the display of every path
updateSymbology(feats, fs, k) ==
    The({[i \in 1..Len(feats) |-> displayStyle(Val(feats[i].derived), fs, minDiam)] :
            minDiam \in {minDiameterForZoomK(k)}})

\* d3.zoom().scaleExtent([1, 20]), line 760
scaleExtent == [lo |-> 1 * Unit, hi |-> 20 * Unit]

\* the scale a wheel event asks for, k * num / den, held to the scale extent
\* as d3's wheel and pinch gestures hold it
wheelScale(k, num, den) == Max2(scaleExtent.lo, Min2(scaleExtent.hi, (k * num) \div den))

\* mutant of toggleOverlay: unchecking any overlay box returns to asset mode
toggleOverlayUncheckClears(overlay, value, checked) ==
    IF checked THEN value ELSE sNone

\* onToggle, its overlay branch: lines 717-718
toggleOverlay(overlay, value, checked) ==
    IF checked THEN value
    ELSE IF overlay = value THEN sNone
    ELSE overlay

\* onToggle(kind, value, checked), lines 714-748: the filterState it leaves
toggleFilter(fs, kind, value, checked) ==
    CASE kind = "overlay" -> [fs EXCEPT !.overlay = toggleOverlay(@, value, checked)]
      [] kind = "basemap" -> [fs EXCEPT !.basemapEnabled = checked]
      [] kind = "diameter" ->
           [fs EXCEPT !.diameterBins = IF checked THEN SetAdd(@, value) ELSE SetDelete(@, value)]
      [] kind = "age" ->
           [fs EXCEPT !.ageBins = IF checked THEN SetAdd(@, value) ELSE SetDelete(@, value)]
      [] kind = "material" ->
           [fs EXCEPT !.materials = IF checked THEN SetAdd(@, value) ELSE SetDelete(@, value)]

\* mutant of restoreUrlState: every render decodes the URL
restoreUrlStateEveryRender(us, query, fs) ==
    readUrlStateIntoFilterState(query, fs, us.transform)

\* render(), lines 702-705: the first render decodes the URL, a later one
\* keeps filterState and urlState.transform
restoreUrlState(us, query, fs) ==
    IF ~us.initialized THEN readUrlStateIntoFilterState(query, fs, us.transform)
    ELSE [transform |-> us.transform, filterState |-> fs]

----------------------------------------------------------------------------
(* The states the parts of the page start in *)

NoCall == [fn |-> "none"]

ScoreStart ==
    /\ call = NoCall
    /\ comboOverrides = Null
    /\ binPrev = Null
    /\ binCur = Null

ViewStart ==
    /\ filterState = DefaultFilterState
    /\ urlState = DefaultUrlState
    /\ search = <<>>
    /\ shared = Null

DataStart ==
    /\ features = <<>>
    /\ renders = 0
    /\ derivedWrites = <<>>

\* no path has been drawn
SymStart == display = <<>>

\* the page as the browser has parsed it: main() has started its two fetches,
\* the status element shows, there is no svg, error element or legend
PageLoading ==
    [geojson |-> "pending", labels |-> "pending", main |-> "awaiting",
     status |-> TRUE, error |-> FALSE, svg |-> FALSE, legend |-> Null]

\* no handler runs, no layer has a transform, no animation frame is requested
LoopStart ==
    /\ page = PageLoading
    /\ handler = "idle"
    /\ layers = [vector |-> Null, tile |-> Null]
    /\ frames = 0

\* a projection fitted to a city: the world is 2^19 * 3/2 base pixels wide
cityProjection == [exp |-> 19, sn |-> 3, sd |-> 2, cx |-> Rat(12, 64), cy |-> Rat(21, 64)]

TileStart ==
    /\ projection = cityProjection
    /\ currentTransform = zoomIdentity
    /\ tileImgs = {}
    /\ tileCall = Null

----------------------------------------------------------------------------
(* Scoring engine: the calls *)

ScoreInit == ScoreStart /\ ViewStart /\ DataStart /\ TileStart /\ SymStart /\ LoopStart

\* no call is in progress and no riskBinFromScores call is remembered
Idle == call = NoCall /\ binCur = Null

\* new RiskConsequenceModel({currentYear: 2025}).compute(a), class A
CallComputeA(a) ==
    /\ Idle
    /\ call' = [fn |-> "computeA", args |-> a, out |-> computeA(a)]
    /\ UNCHANGED <<comboOverrides, binPrev, binCur>>
    /\ UNCHANGED <<viewVars, dataVars, tileVars, symVars, loopVars>>

\* model.setCombinationOverrides(map), class C
SetCombinationOverrides(map) ==
    /\ Idle
    /\ comboOverrides' = map
    /\ UNCHANGED <<call, binPrev, binCur>>
    /\ UNCHANGED <<viewVars, dataVars, tileVars, symVars, loopVars>>

\* model.compute(a), class C
CallComputeC(a) ==
    /\ Idle
    /\ call' = [fn |-> "computeC", args |-> a, out |-> computeC(a, comboOverrides)]
    /\ UNCHANGED <<comboOverrides, binPrev, binCur>>
    /\ UNCHANGED <<viewVars, dataVars, tileVars, symVars, loopVars>>

\* map.js: the scores render caches for a feature with raw properties props
CallMapScore(props) ==
    /\ Idle
    /\ call' = [fn |-> "mapScore", args |-> props, out |-> DeriveFeature(props)]
    /\ UNCHANGED <<comboOverrides, binPrev, binCur>>
    /\ UNCHANGED <<viewVars, dataVars, tileVars, symVars, loopVars>>

\* model.sanityCheck(), class A
CallSanityCheck ==
    /\ Idle
    /\ call' = [fn |-> "sanityCheck", args |-> Null, out |-> sanityCheck]
    /\ UNCHANGED <<comboOverrides, binPrev, binCur>>
    /\ UNCHANGED <<viewVars, dataVars, tileVars, symVars, loopVars>>

\* the fractional scores collapsed: tenths, or Null for a missing or
\* non-finite value
CollapseInputs == {Null} \cup {Some(t) : t \in {-10, 0, 10, 15, 20, 21, 25, 30, 31, 35, 40, 41, 45, 50, 63}}

\* model.scoreFromFloat01to4(x), class A
CallCollapseA(x) ==
    /\ Idle
    /\ call' = [fn |-> "scoreFromFloat01to4A", args |-> x, out |-> scoreFromFloat01to4A(x)]
    /\ UNCHANGED <<comboOverrides, binPrev, binCur>>
    /\ UNCHANGED <<viewVars, dataVars, tileVars, symVars, loopVars>>

\* model.scoreFromFloat01to4(x), class C
CallCollapseC(x) ==
    /\ Idle
    /\ call' = [fn |-> "scoreFromFloat01to4C", args |-> x, out |-> scoreFromFloat01to4(x)]
    /\ UNCHANGED <<comboOverrides, binPrev, binCur>>
    /\ UNCHANGED <<viewVars, dataVars, tileVars, symVars, loopVars>>

\* the arguments of the pofScoreFrom calls of class A; the caller passes the
\* status text as it does to the other versions
PofArgsA ==
    [materialCode : MaterialInputsA, diamMm : {Null, Mm(150), Mm(305), Mm(600)},
     installYear : {Null, Some(1960), Some(1976), Some(1990)},
     statusInd : StatusInputsC]

\* model.pofScoreFrom(a), class A, lines 133-149: statusInd is no parameter
CallPofScoreFromA(a) ==
    /\ Idle
    /\ call' = [fn |-> "pofScoreFromA", args |-> a,
                out |-> pofScoreFromA(a.materialCode, a.installYear, a.diamMm)]
    /\ UNCHANGED <<comboOverrides, binPrev, binCur>>
    /\ UNCHANGED <<viewVars, dataVars, tileVars, symVars, loopVars>>

\* the caller has used the result
Return ==
    /\ call # NoCall
    /\ call' = NoCall
    /\ UNCHANGED <<comboOverrides, binPrev, binCur>>
    /\ UNCHANGED <<viewVars, dataVars, tileVars, symVars, loopVars>>

\* riskBinFromScores(pof, cof) on a pair of levels
CallRiskBin(pof, cof) ==
    /\ call = NoCall
    /\ binPrev' = binCur
    /\ binCur' = Some([pof |-> pof, cof |-> cof, bin |-> riskBinFromScores(Some(pof), Some(cof))])
    /\ UNCHANGED <<call, comboOverrides>>
    /\ UNCHANGED <<viewVars, dataVars, tileVars, symVars, loopVars>>

\* the remembered riskBinFromScores calls are dropped
ForgetBins ==
    /\ binCur # Null
    /\ binPrev' = Null /\ binCur' = Null
    /\ UNCHANGED <<call, comboOverrides>>
    /\ UNCHANGED <<viewVars, dataVars, tileVars, symVars, loopVars>>

ScoreNext ==
    \/ /\ Idle
       /\ \/ \E a \in ArgsA : CallComputeA(a)
          \/ \E map \in {Null, Some(OverrideTable)} : SetCombinationOverrides(map)
          \/ \E a \in ArgsC : CallComputeC(a)
          \/ \E props \in PropsInputs : CallMapScore(props)
          \/ CallSanityCheck
          \/ \E a \in PofArgsA : CallPofScoreFromA(a)
          \/ \E x \in CollapseInputs : CallCollapseA(x)
          \/ \E x \in CollapseInputs : CallCollapseC(x)
    \/ Return
    \/ \E pof \in 1..4, cof \in 1..4 : CallRiskBin(pof, cof)
    \/ ForgetBins

SpecScore == ScoreInit /\ [][ScoreNext]_vars


----------------------------------------------------------------------------
(* Scoring engine: properties *)

IsCompute == call.fn \in {"computeA", "computeC", "mapScore"}

\* C1: whatever the material, diameter, install year, status and length, and on
\* the override path whatever the LoF/CoF of the entry (fractional or missing),
\* the pof, cof and riskBin that compute returns (class A, class C, and the
\* scores map.js caches) are each an integer level in {1,2,3,4}.
C1_ScoresInRange ==
    IsCompute => /\ call.out.pof \in 1..4
                 /\ call.out.cof \in 1..4
                 /\ call.out.riskBin \in 1..4

\* C1 witness: the override path has collapsed a fractional LoF above 4.0 and a
\* CoF below 1.0 of an entry
C1_Witness ==
    /\ call.fn = "computeC"
    /\ call.out.source = "csv"
    /\ call.out.pof = 4
    /\ call.out.cof = 1

IsRuleCall ==
    \/ call.fn = "computeA"
    \/ call.fn = "computeC" /\ IsNull(call.args.comboKeyParts)

\* the normalized material of a rule-based call, as its class normalizes it
CallMaterial ==
    IF call.fn = "computeA" THEN normalizeMaterialA(call.args.materialCode)
    ELSE normalizeMaterialC(call.args.materialCode)

CallIs(mat, diam, year) ==
    /\ IsRuleCall
    /\ CallMaterial = mat
    /\ call.args.diamMm = Mm(diam)
    /\ call.args.installYear = Some(year)

Triple(out) == <<out.pof, out.cof, out.riskBin>>

\* C5: compute on CI / 150 mm / 1960 gives pof 4, cof 2, riskBin 2.
C5_CiOldSmall ==
    (CallIs(sCI, 150, 1960) /\ IsNull(call.args.lengthM)
        /\ (call.fn = "computeC" => IsNull(call.args.statusInd)))
    => Triple(call.out) = <<4, 2, 2>>

\* C5, class A alone: there the scenario holds
C5_CiOldSmallClassA ==
    (call.fn = "computeA" /\ CallIs(sCI, 150, 1960)) => Triple(call.out) = <<4, 2, 2>>

\* C6: a PCCP-family pipe installed 1975-1978 has pof 4, cof 4 and riskBin 4
\* whatever its diameter, status and length; installed 1970-1980 it has pof >= 3.
C6_VintageOverride ==
    (IsRuleCall /\ CallMaterial \in {sPCCP, sPCI} /\ ~IsNull(call.args.installYear)) =>
        LET y == Val(call.args.installYear)
        IN  /\ (y >= 1975 /\ y <= 1978) => Triple(call.out) = <<4, 4, 4>>
            /\ (y >= 1970 /\ y <= 1980) => call.out.pof >= 3

\* C6 witness: PCCP, 600 mm, 1976 scored 4/4/4, and a wider-window pipe scored
\* pof 3 exists too (checked on the 1970 pipe)
C6_Witness ==
    /\ call.fn = "computeA" /\ CallIs(sPCCP, 600, 1976)
    /\ Triple(call.out) = <<4, 4, 4>>
    /\ computeA([call.args EXCEPT !.installYear = Some(1970)]).pof = 3

\* C7: compute on PCCP / 600 mm / 1986 gives pof 1, cof 4 and riskBin 2.
C7_PccpNonVintage ==
    CallIs(sPCCP, 600, 1986) => Triple(call.out) = <<1, 4, 2>>

\* C8: sanityCheck() reports ok = true and failedCount = 0.
C8_SanityCheckPasses ==
    call.fn = "sanityCheck" => (call.out.ok /\ call.out.failedCount = 0)

\* the row of the override table that the key parts of a call spell, if any
RowOf(parts) ==
    LET hits == {i \in 1..Len(OverrideRows) : Some(RawParts(OverrideRows[i])) = parts}
    IN  IF hits = {} THEN Null ELSE Some(OverrideRows[CHOOSE i \in hits : TRUE])

\* the row a compute call of class C finds: the table is installed and the
\* call gives the key parts of one of its rows
CallRow ==
    IF call.fn = "computeC" /\ ~IsNull(comboOverrides) THEN RowOf(call.args.comboKeyParts)
    ELSE Null

\* a LoF or CoF of the table, in tenths, as a level: up to 2.0 is 1, up to
\* 3.0 is 2, up to 4.0 is 3, above is 4
Collapsed(tenths) == IF tenths <= 20 THEN 1 ELSE IF tenths <= 30 THEN 2 ELSE IF tenths <= 40 THEN 3 ELSE 4

\* what compute gives for the same feature with no table and no key parts
RuleResult == computeC([call.args EXCEPT !.comboKeyParts = Null], Null)

\* C15: a compute call whose key parts spell a row of the installed table with
\* a LoF and a CoF returns the collapsed LoF and CoF as pof and cof; a call
\* whose key is not in the table, or without table or key parts, returns the
\* rule-based result.
C15_OverridePrecedence ==
    call.fn = "computeC" =>
        /\ (~IsNull(CallRow) /\ ~IsNull(Val(CallRow).LoF) /\ ~IsNull(Val(CallRow).CoF)) =>
              /\ call.out.pof = Collapsed(Val(Val(CallRow).LoF))
              /\ call.out.cof = Collapsed(Val(Val(CallRow).CoF))
        /\ IsNull(CallRow) => call.out = RuleResult

\* C15 witness: an override gave a pof and a cof that both differ from the
\* rule-based ones
C15_Witness ==
    /\ call.fn = "computeC"
    /\ ~IsNull(CallRow) /\ ~IsNull(Val(CallRow).LoF) /\ ~IsNull(Val(CallRow).CoF)
    /\ call.out.pof # RuleResult.pof
    /\ call.out.cof # RuleResult.cof

\* C16: pofSource is csv exactly when pof is the collapsed LoF of the row
\* found and doc when it is the rule-based pof, cofSource likewise, and
\* source is csv when both are csv, doc when both are doc, mix otherwise.
C16_SourceLabels ==
    call.fn = "computeC" =>
        LET pofCsv == ~IsNull(CallRow) /\ ~IsNull(Val(CallRow).LoF)
            cofCsv == ~IsNull(CallRow) /\ ~IsNull(Val(CallRow).CoF)
        IN  /\ call.out.pofSource = (IF pofCsv THEN "csv" ELSE "doc")
            /\ call.out.cofSource = (IF cofCsv THEN "csv" ELSE "doc")
            /\ call.out.pof = (IF pofCsv THEN Collapsed(Val(Val(CallRow).LoF)) ELSE RuleResult.pof)
            /\ call.out.cof = (IF cofCsv THEN Collapsed(Val(Val(CallRow).CoF)) ELSE RuleResult.cof)
            /\ call.out.source = (IF pofCsv /\ cofCsv THEN "csv"
                                  ELSE IF ~pofCsv /\ ~cofCsv THEN "doc"
                                  ELSE "mix")

\* C16 witness: a row with a CoF and no LoF gave a rule-based pof and an
\* override cof that differs from the rule-based one
C16_Witness ==
    /\ call.fn = "computeC"
    /\ call.out.source = "mix"
    /\ call.out.pofSource = "doc" /\ call.out.cofSource = "csv"
    /\ call.out.cof # RuleResult.cof

----------------------------------------------------------------------------
(* View state and URL: the handlers *)

\* the query strings the page is opened with: none, and a shared view with an
\* empty diameter filter and a parameter of another origin
sharedViewQuery ==
    <<"?","k","=","2",".","5","0","0","0","&","x","=","-","1","2","0",".","0","0","&","y","=","8","5",".","0","0","&","b","m","=","0","&","o","v","=","r","i","s","k","&","d","i","a","=","&","a","g","e","=","%3C","2","0","&","m","a","t","=","P","V","C","&","u","t","m","=","a","+","b">>

\* a hand-written URL whose filters name labels of no legend box
foreignLabelsQuery ==
    <<"?","d","i","a","=","X","L",",","3","0","0","&","m","a","t","=","C","I",",","l","e","a","d">>

InitialSearches == {<<>>, sharedViewQuery, foreignLabelsQuery}

\* the transforms of the zoom events: 1 <= k <= 20 (scaleExtent), any translation
ZoomTransforms ==
    {[k |-> 123455,  x |-> -12000500, y |-> 8500400],
     [k |-> 20 * Unit, x |-> 0,       y |-> -100],
     [k |-> Unit,    x |-> 123456500, y |-> -750000]}

\* the legend inputs operated: (kind, value)
ToggleInputs ==
    {<<"overlay", sRisk>>, <<"overlay", sConsequence>>, <<"basemap", <<>>>>,
     <<"diameter", binLE150>>, <<"age", binLT20>>, <<"material", sOther>>}

CodecInit ==
    /\ filterState = DefaultFilterState
    /\ urlState = DefaultUrlState
    /\ search \in InitialSearches
    /\ shared = Null
    /\ ScoreStart /\ DataStart /\ TileStart /\ SymStart /\ LoopStart

\* scheduleUrlWrite(transform), lines 132-140: the state it leaves; the
\* animation-frame callback it requests is AnimationFrame
scheduleUrlWrite(us, transform) == [us EXCEPT !.transform = transform, !.pending = TRUE]

\* render(), its part on the view state: lines 702-707, 979 and 982
RenderUrl ==
    /\ LET restored == restoreUrlState(urlState, search, filterState)
       IN  /\ filterState' = restored.filterState
           /\ urlState' = scheduleUrlWrite([urlState EXCEPT !.initialized = TRUE],
                                           restored.transform)
    /\ UNCHANGED <<search, shared>>
    /\ UNCHANGED <<scoreVars, dataVars, tileVars, symVars, loopVars>>

\* the zoom handler, its part on the view state: lines 761-763 and 767
ZoomEvent(t) ==
    /\ urlState.initialized
    /\ urlState' = scheduleUrlWrite(urlState, t)
    /\ UNCHANGED <<filterState, search, shared>>
    /\ UNCHANGED <<scoreVars, dataVars, tileVars, symVars, loopVars>>

\* onToggle(kind, value, checked), lines 714-751
OnToggle(kind, value, checked) ==
    /\ urlState.initialized
    /\ filterState' = toggleFilter(filterState, kind, value, checked)
    /\ urlState' = scheduleUrlWrite(urlState, urlState.transform)
    /\ UNCHANGED <<search, shared>>
    /\ UNCHANGED <<scoreVars, dataVars, tileVars, symVars, loopVars>>

\* the animation-frame callback of scheduleUrlWrite, lines 136-139
AnimationFrame ==
    /\ urlState.pending
    /\ urlState' = [urlState EXCEPT !.pending = FALSE]
    /\ search' = writeUrlState(search, filterState, urlState.transform)
    /\ UNCHANGED <<filterState, shared>>
    /\ UNCHANGED <<scoreVars, dataVars, tileVars, symVars, loopVars>>

\* the URL is opened in another window: the first render there decodes it
\* into a filterState and a urlState as the script creates them
OpenShared ==
    /\ urlState.initialized /\ ~urlState.pending
    /\ IsNull(shared)
    /\ shared' = Some(readUrlStateIntoFilterState(search, DefaultFilterState, zoomIdentity))
    /\ UNCHANGED <<filterState, urlState, search>>
    /\ UNCHANGED <<scoreVars, dataVars, tileVars, symVars, loopVars>>

CloseShared ==
    /\ ~IsNull(shared)
    /\ shared' = Null
    /\ UNCHANGED <<filterState, urlState, search>>
    /\ UNCHANGED <<scoreVars, dataVars, tileVars, symVars, loopVars>>

\* one event per animation frame, and none while the other window is looked at
CodecNext ==
    \/ /\ ~urlState.pending /\ IsNull(shared)
       /\ \/ RenderUrl
          \/ \E t \in ZoomTransforms : ZoomEvent(t)
          \/ \E inp \in ToggleInputs, checked \in BOOLEAN : OnToggle(inp[1], inp[2], checked)
    \/ AnimationFrame
    \/ OpenShared
    \/ CloseShared

SpecCodec == CodecInit /\ [][CodecNext]_vars

\* C3: a view reached by zoom, pan and legend toggles, written to the URL by
\* writeUrlState and read by readUrlStateIntoFilterState into a filterState
\* and transform as the script creates them, comes back with the same overlay,
\* basemap flag and three filter sets, and with k rounded to 4 decimals and
\* x and y rounded to 2.
C3_RoundTrip ==
    ~IsNull(shared) =>
        LET d == Val(shared)
            t == urlState.transform
        IN  /\ d.filterState.overlay = filterState.overlay
            /\ d.filterState.basemapEnabled = filterState.basemapEnabled
            /\ Members(d.filterState.diameterBins) = Members(filterState.diameterBins)
            /\ Members(d.filterState.ageBins) = Members(filterState.ageBins)
            /\ Members(d.filterState.materials) = Members(filterState.materials)
            /\ d.transform.k = RoundTo(t.k, 4) /\ Abs(d.transform.k - t.k) <= 5
            /\ d.transform.x = RoundTo(t.x, 2) /\ Abs(d.transform.x - t.x) <= 500
            /\ d.transform.y = RoundTo(t.y, 2) /\ Abs(d.transform.y - t.y) <= 500

\* C3 witness: a view with an empty diameter filter, a risk overlay, a label
\* that needs escaping and a scale that needs rounding has made the round trip
C3_Witness ==
    /\ ~IsNull(shared)
    /\ filterState.diameterBins = <<>>
    /\ filterState.overlay = sRisk
    /\ binLT20 \in Members(filterState.ageBins)
    /\ Members(filterState.materials) = {sPVC, sOther}
    /\ urlState.transform.k = 123455
    /\ Val(shared).transform.k = 123460
    /\ Val(shared).filterState.diameterBins = <<>>

----------------------------------------------------------------------------
(* The derived-attribute cache: the render loop *)

\* how many renders the model follows
MaxRenders == 2

\* how many features the dataset has
FeatureCount == 2

FeatureProps ==
    {[diam |-> Some(sDiam150), material |-> Some(sLowerPaddedCI), year |-> Some(sYear1960),
      status_ind |-> Some(sActive), length |-> Some(sLen12)],
     [diam |-> Some(sDiam600), material |-> Some(sCON), year |-> Some(sYearDate),
      status_ind |-> Some(sAbandoned), length |-> Some(sLen600)],
     [diam |-> Some(sPadDiam), material |-> Some(sPVC), year |-> Some(sYear2001),
      status_ind |-> Null, length |-> Null],
     [diam |-> Some(sDiamBad), material |-> Some(sOther3), year |-> Some(sYearFuture),
      status_ind |-> Some(sActive), length |-> Some(sLen12)],
     [diam |-> Null, material |-> Null, year |-> Null, status_ind |-> Null, length |-> Null]}

DerivedInit ==
    /\ features \in [1..FeatureCount -> [properties : FeatureProps, derived : {Null}]]
    /\ renders = 0
    /\ derivedWrites = [i \in 1..FeatureCount |-> 0]
    /\ ScoreStart /\ ViewStart /\ TileStart /\ SymStart /\ LoopStart

\* render(), its loop over the features: lines 779-812
RenderDerived ==
    /\ renders < MaxRenders
    /\ features' = [i \in 1..Len(features) |->
                      [features[i] EXCEPT !.derived = Some(DeriveFeature(features[i].properties))]]
    /\ renders' = renders + 1
    /\ derivedWrites' = [i \in 1..Len(features) |-> derivedWrites[i] + 1]
    /\ urlState' = scheduleUrlWrite([urlState EXCEPT !.initialized = TRUE], urlState.transform)
    /\ UNCHANGED <<filterState, search, shared>>
    /\ UNCHANGED <<scoreVars, tileVars, symVars, loopVars>>

DerivedNext ==
    \/ RenderDerived
    \/ \E t \in ZoomTransforms : ZoomEvent(t)
    \/ \E inp \in {<<"overlay", sRisk>>, <<"basemap", <<>>>>, <<"diameter", binLE150>>},
          checked \in BOOLEAN : OnToggle(inp[1], inp[2], checked)

SpecDerived == DerivedInit /\ [][DerivedNext]_vars

C17_DerivedComputedOnce ==
    \A i \in 1..Len(derivedWrites) : derivedWrites[i] <= 1

----------------------------------------------------------------------------
(* The basemap tiles: the handlers *)

\* the projections fitSize leaves: a world 128 pixels wide, a city, a
\* neighbourhood, and a world 1024 pixels wide whose corner is pixel (0, 0)
Projections ==
    {[exp |-> 7,  sn |-> 1, sd |-> 1, cx |-> Rat(-3, 4), cy |-> Rat(-1, 4)],
     cityProjection,
     [exp |-> 24, sn |-> 3, sd |-> 2, cx |-> Rat(12, 64), cy |-> Rat(21, 64)],
     [exp |-> 10, sn |-> 1, sd |-> 1, cx |-> RatOf(0), cy |-> RatOf(0)]}

\* the transforms of the zoom events: 1 <= k <= 20, translations in whole pixels
TileTransforms ==
    [k : {Unit, 150000, 275000, 20 * Unit}, x : {0, -100 * Unit, 250 * Unit},
     y : {0, -60 * Unit}]

TileInit ==
    /\ projection \in Projections
    /\ currentTransform = zoomIdentity
    /\ tileImgs = {}
    /\ tileCall = Null
    /\ ScoreStart /\ ViewStart /\ DataStart /\ SymStart /\ LoopStart

\* render(), its part on the tile layer: the layer is emptied (lines 685-686)
\* and zoom.transform (line 979) runs the zoom handler on the current transform
RenderTiles ==
    /\ LET r == updateTiles(projection, filterState, currentTransform, {})
       IN  tileImgs' = r.imgs /\ tileCall' = Some(r.call)
    /\ urlState' = [urlState EXCEPT !.initialized = TRUE]
    /\ UNCHANGED <<projection, currentTransform>>
    /\ UNCHANGED <<filterState, search, shared>>
    /\ UNCHANGED <<scoreVars, dataVars, symVars, loopVars>>

\* the zoom handler, its part on the tile layer: lines 761-762 and 766
ZoomTiles(t) ==
    /\ urlState.initialized
    /\ currentTransform' = t
    /\ LET r == updateTiles(projection, filterState, t, tileImgs)
       IN  tileImgs' = r.imgs /\ tileCall' = Some(r.call)
    /\ UNCHANGED projection
    /\ UNCHANGED <<scoreVars, viewVars, dataVars, symVars, loopVars>>

\* onToggle("basemap", value, checked): lines 728-733
ToggleBasemap(checked) ==
    /\ urlState.initialized
    /\ filterState' = [filterState EXCEPT !.basemapEnabled = checked]
    /\ LET r == updateTiles(projection, filterState', currentTransform, tileImgs)
       IN  tileImgs' = r.imgs /\ tileCall' = Some(r.call)
    /\ UNCHANGED <<projection, currentTransform>>
    /\ UNCHANGED <<urlState, search, shared>>
    /\ UNCHANGED <<scoreVars, dataVars, symVars, loopVars>>

TileNext ==
    \/ RenderTiles
    \/ \E t \in TileTransforms : ZoomTiles(t)
    \/ \E checked \in BOOLEAN : ToggleBasemap(checked)

SpecTiles == TileInit /\ [][TileNext]_vars

\* an updateTiles call has run to its data join
TilesComputed == ~IsNull(tileCall) /\ ~Val(tileCall).skipped

\* C9: the tiles of an updateTiles call that is not skipped (1 <= k <= 20) are
\* a non-empty full rectangle xMin..xMax by yMin..yMax at one zoom level z in
\* 0..19, with every x and y in 0..2^z - 1.
C9_TileRectangle ==
    TilesComputed =>
        LET tiles == Val(tileCall).tiles
        IN  /\ tiles # {}
            /\ \E z \in 0..TILE_MAX_Z :
                 \E xMin \in {t[2] : t \in tiles}, xMax \in {t[2] : t \in tiles},
                    yMin \in {t[3] : t \in tiles}, yMax \in {t[3] : t \in tiles} :
                     /\ 0 <= xMin /\ xMax <= 2 ^ z - 1
                     /\ 0 <= yMin /\ yMax <= 2 ^ z - 1
                     /\ tiles = {<<z, x, y>> : x \in xMin..xMax, y \in yMin..yMax}

\* C9 witness: at k = 20 on the neighbourhood projection the zoom level is
\* capped at 19 and the rectangle has several columns and rows
C9_Witness ==
    /\ TilesComputed
    /\ currentTransform.k = 20 * Unit
    /\ projection.exp = 24
    /\ \E t \in Val(tileCall).tiles : t[1] = TILE_MAX_Z
    /\ Cardinality({t[2] : t \in Val(tileCall).tiles}) > 1
    /\ Cardinality({t[3] : t \in Val(tileCall).tiles}) > 1

\* C10: after an updateTiles call that is not skipped the img elements are
\* one per tile of the computed set; the elements of keys that were present
\* are the ones that were there, new elements are the ones of keys that were
\* not, and each element fetches the tile of its key.
C10_KeyedDiff ==
    TilesComputed =>
        LET c == Val(tileCall)
        IN  /\ {img.key : img \in tileImgs} = c.tiles
            /\ Cardinality(tileImgs) = Cardinality(c.tiles)
            /\ \A img \in tileImgs : img.isNew <=> img.key \notin c.before
            /\ \A img \in tileImgs : img.src = img.key

\* C10 witness: a call kept some elements, appended some and removed some
C10_Witness ==
    /\ TilesComputed
    /\ Val(tileCall).before \cap Val(tileCall).tiles # {}
    /\ Val(tileCall).tiles \ Val(tileCall).before # {}
    /\ Val(tileCall).before \ Val(tileCall).tiles # {}

----------------------------------------------------------------------------
(* The page: render, the zoom gestures, the legend and the URL together *)

\* the query strings the page is opened with
\* ?k=50&x=10&y=5
qScaleAbove == <<"?","k","=","5","0","&","x","=","1","0","&","y","=","5">>
\* ?k=0.5&x=0&y=0&ov=RISK&dia=&bm=true
qScaleBelow == <<"?","k","=","0",".","5","&","x","=","0","&","y","=","0","&","o","v","=","R","I","S","K","&","d","i","a","=","&","b","m","=","t","r","u","e">>
\* ?x=10&y=5&age=%3C20,Unknown,50%E2%80%9380&mat=CI,Unknown
qNoScale == <<"?","x","=","1","0","&","y","=","5","&","a","g","e","=","%3C","2","0",",","U","n","k","n","o","w","n",",","5","0","%E2%80%93","8","0","&","m","a","t","=","C","I",",","U","n","k","n","o","w","n">>
\* ?k=2&x=abc&y=5&ov=bogus&bm=0
qBadX == <<"?","k","=","2","&","x","=","a","b","c","&","y","=","5","&","o","v","=","b","o","g","u","s","&","b","m","=","0">>
\* ?k=2.5&y=5&ov=consequence
qNoX == <<"?","k","=","2",".","5","&","y","=","5","&","o","v","=","c","o","n","s","e","q","u","e","n","c","e">>
\* ?k=&x=10&y=5
qEmptyScale == <<"?","k","=","&","x","=","1","0","&","y","=","5">>

PageSearches == {<<>>, qScaleAbove, qScaleBelow, qNoScale, qBadX, qNoX, qEmptyScale}

sDiam300 == <<"3","0","0">>

\* the raw properties of the features of the dataset
PageProps ==
    << [diam |-> Some(sDiam150), material |-> Some(sLowerPaddedCI), year |-> Some(sYear1960),
        status_ind |-> Some(sActive), length |-> Some(sLen12)],
       [diam |-> Some(sDiam600), material |-> Some(sCON), year |-> Some(sYearDate),
        status_ind |-> Some(sAbandoned), length |-> Some(sLen600)],
       [diam |-> Some(sDiam300), material |-> Some(sPVC), year |-> Some(sYear2001),
        status_ind |-> Null, length |-> Null],
       [diam |-> Some(sDiamBad), material |-> Some(sCI), year |-> Some(sYear1960),
        status_ind |-> Some(sActive), length |-> Some(sLen12)],
       [diam |-> Some(sDiam600), material |-> Some(<<" ">>), year |-> Some(sYearFuture),
        status_ind |-> Some(sActive), length |-> Some(sLen12)],
       [diam |-> Null, material |-> Null, year |-> Null, status_ind |-> Null, length |-> Null] >>

\* the legend inputs operated: (kind, value)
PageToggles ==
    {<<"overlay", sRisk>>, <<"overlay", sConsequence>>, <<"basemap", <<>>>>,
     <<"diameter", sUnknown>>}

\* the factors of the wheel events, as (numerator, denominator)
WheelFactors == {<<4, 1>>, <<1, 4>>}

\* the drags of the pan gestures, in pixels
PanSteps == {<<120, 0>>, <<-120, 0>>}

\* how far, in pixels, the model follows a pan
MaxPan == 130

PageInit ==
    /\ filterState = DefaultFilterState
    /\ urlState = DefaultUrlState
    /\ search \in PageSearches
    /\ shared = Null
    /\ features = [i \in 1..Len(PageProps) |-> [properties |-> PageProps[i], derived |-> Null]]
    /\ renders = 0
    /\ derivedWrites = [i \in 1..Len(PageProps) |-> 0]
    /\ ScoreStart /\ TileStart /\ SymStart /\ LoopStart

\* render(geojson, labels), lines 682-987, but for the tile layer: the URL is
\* decoded on the first call, _derived is set on every feature, zoom.transform
\* (line 979) runs the zoom handler on the transform kept, and the URL write
\* is scheduled
Render ==
    /\ renders < MaxRenders
    /\ \E restored \in {restoreUrlState(urlState, search, filterState)} :
         \E feats \in {[i \in 1..Len(features) |->
                          [features[i] EXCEPT !.derived = Some(DeriveFeature(features[i].properties))]]} :
           /\ filterState' = restored.filterState
           /\ features' = feats
           /\ currentTransform' = restored.transform
           /\ display' = updateSymbology(feats, restored.filterState, restored.transform.k)
           /\ urlState' = scheduleUrlWrite([urlState EXCEPT !.initialized = TRUE],
                                           restored.transform)
    /\ renders' = renders + 1
    /\ derivedWrites' = [i \in 1..Len(features) |-> derivedWrites[i] + 1]
    /\ UNCHANGED <<search, shared>>
    /\ UNCHANGED <<projection, tileImgs, tileCall>>
    /\ UNCHANGED <<scoreVars, loopVars>>

\* the zoom handler, lines 761-767, but for the tile layer
Zoomed(t) ==
    /\ currentTransform' = t
    /\ display' = updateSymbology(features, filterState, t.k)
    /\ urlState' = scheduleUrlWrite(urlState, t)
    /\ UNCHANGED <<filterState, search, shared>>
    /\ UNCHANGED <<projection, tileImgs, tileCall>>
    /\ UNCHANGED <<scoreVars, dataVars, loopVars>>

\* a wheel event with the pointer on the place of the projection's origin,
\* which the zoom keeps in place: the scale is held to the scale extent and an
\* event that leaves the scale where it is does nothing
WheelZoom(num, den) ==
    /\ urlState.initialized
    /\ 0 <= currentTransform.x /\ currentTransform.x <= viewport.w * Unit
    /\ 0 <= currentTransform.y /\ currentTransform.y <= viewport.h * Unit
    /\ wheelScale(currentTransform.k, num, den) # currentTransform.k
    /\ Zoomed([currentTransform EXCEPT !.k = wheelScale(@, num, den)])

\* a drag by (dx, dy) pixels: the scale stays
PanBy(dx, dy) ==
    /\ urlState.initialized
    /\ Abs(currentTransform.x + dx * Unit) <= MaxPan * Unit
    /\ Abs(currentTransform.y + dy * Unit) <= MaxPan * Unit
    /\ Zoomed([currentTransform EXCEPT !.x = @ + dx * Unit, !.y = @ + dy * Unit])

\* onToggle(kind, value, checked), lines 714-751, but for the tile layer
PageToggle(kind, value, checked) ==
    /\ urlState.initialized
    /\ \E fs \in {toggleFilter(filterState, kind, value, checked)} :
         /\ filterState' = fs
         /\ display' = IF kind = "basemap" THEN display
                       ELSE updateSymbology(features, fs, currentTransform.k)
    /\ urlState' = scheduleUrlWrite(urlState, currentTransform)
    /\ UNCHANGED <<search, shared>>
    /\ UNCHANGED tileVars
    /\ UNCHANGED <<scoreVars, dataVars, loopVars>>

\* a resize re-renders at any time; the gestures and the legend are followed
\* one per animation frame
PageNext ==
    \/ Render
    \/ /\ ~urlState.pending
       /\ \/ \E f \in WheelFactors : WheelZoom(f[1], f[2])
          \/ \E d \in PanSteps : PanBy(d[1], d[2])
          \/ \E inp \in PageToggles, checked \in BOOLEAN : PageToggle(inp[1], inp[2], checked)
    \/ AnimationFrame

SpecPage == PageInit /\ [][PageNext]_vars

\* C11: once the page has rendered, the scale of the current transform is
\* within the scale extent, 1 <= k <= 20.
C11_ScaleInExtent ==
    urlState.initialized =>
        /\ scaleExtent.lo <= currentTransform.k
        /\ currentTransform.k <= scaleExtent.hi

LodScales ==
    {1 * Unit, 125000, 149999, 150000, 2 * Unit, 399999, 4 * Unit, 5 * Unit, 799999,
     8 * Unit, 16 * Unit, 20 * Unit}

\* C13: a path is displayed exactly when its feature's diameter bin, age bin
\* and material group are in the active filter sets and its diameter is at
\* least the minimum of the current scale (400 mm below 1.5, 250 mm below 4,
\* 150 mm below 8, none from 8 on); and a displayed path is displayed at
\* every larger scale under the same filter sets.
C13_DisplayedIff ==
    display # <<>> =>
        \A i \in 1..Len(display) :
            LET d == Val(features[i].derived)
                k == currentTransform.k
                inFilters == /\ d.diamBin \in Members(filterState.diameterBins)
                             /\ d.ageBin \in Members(filterState.ageBins)
                             /\ d.matGroup \in Members(filterState.materials)
                minimum == IF k < 150000 THEN 400 * Unit
                           ELSE IF k < 4 * Unit THEN 250 * Unit
                           ELSE 150 * Unit
                largeEnough == \/ k >= 8 * Unit
                               \/ ~IsNull(d.diamMm) /\ Val(d.diamMm) >= minimum
            IN  /\ display[i] <=> (inFilters /\ largeEnough)
                /\ display[i] =>
                     \A k2 \in LodScales :
                        k2 >= k => displayStyle(d, filterState, minDiameterForZoomK(k2))

\* C13 witness: at scale 4 under the default filters the 150 mm main is
\* displayed, the main without a diameter is not
C13_Witness ==
    /\ display # <<>>
    /\ currentTransform.k = 4 * Unit
    /\ filterState.diameterBins = DefaultFilterState.diameterBins
    /\ filterState.ageBins = DefaultFilterState.ageBins
    /\ filterState.materials = DefaultFilterState.materials
    /\ Val(features[1].derived).diamMm = Mm(150) /\ display[1]
    /\ IsNull(Val(features[4].derived).diamMm) /\ ~display[4]

\* C14: a feature whose diameter, install year or material did not parse is
\* displayed whenever the bins it falls into are in the active filter sets.
C14_UnparsedStaysVisible ==
    display # <<>> =>
        \A i \in 1..Len(display) :
            LET d == Val(features[i].derived)
            IN  (/\ IsNull(d.diamMm) \/ IsNull(d.installYear) \/ d.matCode = sUnknown
                 /\ d.diamBin \in Members(filterState.diameterBins)
                 /\ d.ageBin \in Members(filterState.ageBins)
                 /\ d.matGroup \in Members(filterState.materials))
                => display[i]

\* C18: a render of a page that has rendered before keeps the filterState
\* and the transform it finds.
C18_DecodedOnce ==
    [][(urlState.initialized /\ renders' # renders) =>
          /\ filterState' = filterState
          /\ currentTransform' = currentTransform
          /\ urlState'.transform = urlState.transform]_vars

\* C18 witness: the page has rendered again at a scale and basemap flag set
\* by the user, while the URL still held the asset mode and the page showed risk
C18_Witness ==
    /\ renders = 2 /\ urlState.pending
    /\ ParamsGet(URLSearchParams(search), pOv) = Some(sNone)
    /\ filterState.overlay = sRisk
    /\ ~filterState.basemapEnabled
    /\ currentTransform.k = 16 * Unit
    /\ urlState.transform = currentTransform

\* C19: the first render leaves the filter set, basemap flag and style mode
\* of a key that the query string does not have as it finds them, and
\* leaves the filter set of a key with an empty value empty.
C19_AbsentKeysKeep ==
    [][(~urlState.initialized /\ urlState'.initialized) =>
          LET params == URLSearchParams(search)
              absent(key) == IsNull(ParamsGet(params, key))
              empty(key) == ParamsGet(params, key) = Some(<<>>)
          IN  /\ absent(pDia) => filterState'.diameterBins = filterState.diameterBins
              /\ absent(pAge) => filterState'.ageBins = filterState.ageBins
              /\ absent(pMat) => filterState'.materials = filterState.materials
              /\ absent(pBm) => filterState'.basemapEnabled = filterState.basemapEnabled
              /\ absent(pOv) => filterState'.overlay = filterState.overlay
              /\ empty(pDia) => Members(filterState'.diameterBins) = {}
              /\ empty(pAge) => Members(filterState'.ageBins) = {}
              /\ empty(pMat) => Members(filterState'.materials) = {}]_vars

\* C19 witness: the first render has decoded a query string with an empty
\* dia and no age and mat
C19_Witness ==
    /\ renders = 1 /\ urlState.pending
    /\ search = qScaleBelow
    /\ filterState.diameterBins = <<>>
    /\ filterState.ageBins = DefaultFilterState.ageBins
    /\ filterState.materials = DefaultFilterState.materials
    /\ filterState.basemapEnabled
    /\ filterState.overlay = sRisk

\* C20: the first render applies each of k, x and y that the query string
\* has with a number for a value, and leaves the scale or translation of
\* each other one as it finds it.
C20_NumericKeysIndependent ==
    [][(~urlState.initialized /\ urlState'.initialized) =>
          LET params == URLSearchParams(search)
              num(key) == LET raw == ParamsGet(params, key)
                          IN  IF IsNull(raw) THEN Null
                              ELSE IF Trim(Val(raw)) = <<>> THEN Null
                              ELSE ToNumber(Val(raw))
          IN  /\ currentTransform'.k =
                    IF IsNull(num(pK)) THEN currentTransform.k ELSE Val(num(pK))
              /\ currentTransform'.x =
                    IF IsNull(num(pX)) THEN currentTransform.x ELSE Val(num(pX))
              /\ currentTransform'.y =
                    IF IsNull(num(pY)) THEN currentTransform.y ELSE Val(num(pY))]_vars

----------------------------------------------------------------------------
(* The event loop: main(), render, the zoom handler statement by statement, *)
(* the legend and the animation frames                                      *)

sCastIron == <<"C","a","s","t"," ","i","r","o","n">>
sVinyl == <<"V","i","n","y","l">>

\* material_labels.json: pairs of a material code and its label
LabelTable == << <<sCI, sCastIron>>, <<sPVC, sVinyl>> >>

\* labels?.[key]
LabelGet(labels, key) ==
    IF \A i \in 1..Len(labels) : labels[i][1] # key THEN Null
    ELSE Some(labels[CHOOSE i \in 1..Len(labels) : labels[i][1] = key][2])

\* materialLabel(code, labels), lines 305-310
materialLabel(code, labels) ==
    IF code = <<>> THEN sUnknown
    ELSE LET key == ToUpperCase(Trim(code))
             label == LabelGet(labels, key)
         IN  IF IsNull(label) THEN key ELSE Val(label)

\* renderLegend, lines 572-582: the labels of the material boxes
legendMaterials(labels) ==
    LET mats == MATERIAL_ORDER \o <<sOther, sUnknown>>
    IN  [i \in 1..Len(mats) |->
            IF mats[i] = sOther \/ mats[i] = sUnknown THEN mats[i]
            ELSE materialLabel(mats[i], labels)]

\* mutant of showError: the status element stays
showErrorKeepStatus(pg) == [pg EXCEPT !.error = TRUE]

\* showError(err), lines 595-601
showError(pg) == [pg EXCEPT !.status = FALSE, !.error = TRUE]

\* clearStatus(), lines 603-605
clearStatus(pg) == [pg EXCEPT !.status = FALSE]

\* mutant of tileLayerTransform: the transform is set on the first call only
tileLayerTransformOnce(fs, transform, old) ==
    IF ~fs.basemapEnabled THEN old
    ELSE IF IsNull(old) THEN Some(transform) ELSE old

\* updateTiles(transform), lines 897-901: the transform of the tile layer
tileLayerTransform(fs, transform, old) ==
    IF ~fs.basemapEnabled THEN old ELSE Some(transform)

\* mutant of scheduleUrlWriteFrames: every call requests a callback
scheduleUrlWriteFramesEach(us, n) == n + 1

\* scheduleUrlWrite(transform), lines 134-136: the callbacks waiting after it
scheduleUrlWriteFrames(us, n) == IF us.pending THEN n ELSE n + 1

\* mutant of zoomHandlerNext: the handler has no updateTiles statement
zoomHandlerSkipTiles(at) ==
    IF at = "transform" THEN "symbology"
    ELSE IF at = "symbology" THEN "url"
    ELSE "idle"

\* the zoom handler, lines 761-767: the statement that follows the one at
\* which the handler stands (transform: 761-763, symbology: 764, tiles: 765,
\* url: 766; idle: the handler has returned)
zoomHandlerNext(at) ==
    IF at = "transform" THEN "symbology"
    ELSE IF at = "symbology" THEN "tiles"
    ELSE IF at = "tiles" THEN "url"
    ELSE "idle"

\* the raw properties of the features of the dataset
LoopProps ==
    << [diam |-> Some(sDiam150), material |-> Some(sLowerPaddedCI), year |-> Some(sYear1960),
        status_ind |-> Some(sActive), length |-> Some(sLen12)],
       [diam |-> Some(sDiam600), material |-> Some(sCON), year |-> Some(sYearDate),
        status_ind |-> Some(sAbandoned), length |-> Some(sLen600)],
       [diam |-> Some(sDiamBad), material |-> Some(sPVC), year |-> Some(sYear2001),
        status_ind |-> Null, length |-> Null] >>

\* the transforms of the zoom events
LoopTransforms ==
    {[k |-> 4 * Unit, x |-> -100 * Unit, y |-> 0],
     [k |-> 8 * Unit, x |-> 0, y |-> -60 * Unit]}

\* the legend inputs operated: (kind, value)
LoopToggles == {<<"basemap", <<>>>>, <<"overlay", sRisk>>}

LoopInit ==
    /\ filterState = DefaultFilterState
    /\ urlState = DefaultUrlState
    /\ search = <<>>
    /\ shared = Null
    /\ features = [i \in 1..Len(LoopProps) |-> [properties |-> LoopProps[i], derived |-> Null]]
    /\ renders = 0
    /\ derivedWrites = [i \in 1..Len(LoopProps) |-> 0]
    /\ ScoreStart /\ TileStart /\ SymStart /\ LoopStart

\* d3.json(geojsonUrl) settles, line 993
GeojsonSettles(ok) ==
    /\ page.geojson = "pending"
    /\ page' = [page EXCEPT !.geojson = IF ok THEN "ok" ELSE "failed"]
    /\ UNCHANGED <<handler, layers, frames>>
    /\ UNCHANGED <<scoreVars, viewVars, dataVars, tileVars, symVars>>

\* d3.json(materialLabelsUrl) settles, line 994
LabelsSettle(ok) ==
    /\ page.labels = "pending"
    /\ page' = [page EXCEPT !.labels = IF ok THEN "ok" ELSE "failed"]
    /\ UNCHANGED <<handler, layers, frames>>
    /\ UNCHANGED <<scoreVars, viewVars, dataVars, tileVars, symVars>>

\* render(geojson, labels), lines 682-978, on the page pg: everything before
\* zoom.transform (line 979) dispatches the zoom event, whose handler is
\* followed statement by statement.  The new paths have no display style and
\* the new vector layer has no transform; the tile layer is emptied and keeps
\* its transform.
RenderBody(pg) ==
    /\ \E restored \in {restoreUrlState(urlState, search, filterState)} :
         /\ filterState' = restored.filterState
         /\ urlState' = [urlState EXCEPT !.initialized = TRUE, !.transform = restored.transform]
         /\ currentTransform' = restored.transform
    /\ features' = [i \in 1..Len(features) |->
                      [features[i] EXCEPT !.derived = Some(DeriveFeature(features[i].properties))]]
    /\ renders' = renders + 1
    /\ derivedWrites' = [i \in 1..Len(features) |-> derivedWrites[i] + 1]
    /\ display' = [i \in 1..Len(features) |-> TRUE]
    /\ tileImgs' = {}
    /\ layers' = [layers EXCEPT !.vector = Null]
    /\ page' = [pg EXCEPT !.svg = TRUE,
                          !.legend = Some(legendMaterials(IF pg.labels = "ok" THEN LabelTable
                                                          ELSE <<>>))]
    /\ handler' = "transform"
    /\ UNCHANGED <<search, shared, projection, tileCall, frames>>
    /\ UNCHANGED scoreVars

\* main() after its await, lines 996-1007: Promise.all has rejected with the
\* dataset, or both fetches have settled (a failed label fetch settles as {})
MainResumes ==
    /\ page.main = "awaiting"
    /\ \/ /\ page.geojson = "failed"
          /\ page' = showError([page EXCEPT !.main = "done"])
          /\ UNCHANGED <<handler, layers, frames>>
          /\ UNCHANGED <<scoreVars, viewVars, dataVars, tileVars, symVars>>
       \/ /\ page.geojson = "ok" /\ page.labels # "pending"
          /\ RenderBody(clearStatus([page EXCEPT !.main = "done"]))

\* the animation-frame callback of the resize handler, lines 1001-1004
Resize ==
    /\ page.svg /\ handler = "idle"
    /\ renders < MaxRenders
    /\ RenderBody(page)

\* the zoom handler, lines 761-763, for the event of zoom.transform (line 979)
ZoomRestored ==
    /\ handler = "transform"
    /\ urlState' = [urlState EXCEPT !.transform = currentTransform]
    /\ layers' = [layers EXCEPT !.vector = Some(currentTransform)]
    /\ handler' = zoomHandlerNext("transform")
    /\ UNCHANGED <<filterState, search, shared, page, frames>>
    /\ UNCHANGED <<scoreVars, dataVars, tileVars, symVars>>

\* the zoom handler, lines 761-763, for the event of a gesture
ZoomGesture(t) ==
    /\ page.svg /\ handler = "idle"
    /\ currentTransform' = t
    /\ urlState' = [urlState EXCEPT !.transform = t]
    /\ layers' = [layers EXCEPT !.vector = Some(t)]
    /\ handler' = zoomHandlerNext("transform")
    /\ UNCHANGED <<filterState, search, shared, page, frames>>
    /\ UNCHANGED <<projection, tileImgs, tileCall>>
    /\ UNCHANGED <<scoreVars, dataVars, symVars>>

\* the zoom handler, line 764
ZoomSymbology ==
    /\ handler = "symbology"
    /\ display' = updateSymbology(features, filterState, currentTransform.k)
    /\ handler' = zoomHandlerNext(handler)
    /\ UNCHANGED <<page, layers, frames>>
    /\ UNCHANGED <<scoreVars, viewVars, dataVars, tileVars>>

\* the zoom handler, line 765
ZoomTilesStep ==
    /\ handler = "tiles"
    /\ \E r \in {updateTiles(projection, filterState, currentTransform, tileImgs)} :
         tileImgs' = r.imgs /\ tileCall' = Some(r.call)
    /\ layers' = [layers EXCEPT !.tile = tileLayerTransform(filterState, currentTransform, @)]
    /\ handler' = zoomHandlerNext(handler)
    /\ UNCHANGED <<page, frames>>
    /\ UNCHANGED <<projection, currentTransform>>
    /\ UNCHANGED <<scoreVars, viewVars, dataVars, symVars>>

\* the zoom handler, line 766; after it the scheduleUrlWrite of line 982
\* finds the same transform and a write pending
ZoomUrl ==
    /\ handler = "url"
    /\ urlState' = scheduleUrlWrite(urlState, currentTransform)
    /\ frames' = scheduleUrlWriteFrames(urlState, frames)
    /\ handler' = zoomHandlerNext(handler)
    /\ UNCHANGED <<filterState, search, shared, page, layers>>
    /\ UNCHANGED <<scoreVars, dataVars, tileVars, symVars>>

\* onToggle(kind, value, checked), lines 714-751
LoopToggle(kind, value, checked) ==
    /\ page.svg /\ handler = "idle"
    /\ \E fs \in {toggleFilter(filterState, kind, value, checked)} :
         /\ filterState' = fs
         /\ IF kind = "basemap"
            THEN /\ \E r \in {updateTiles(projection, fs, currentTransform, tileImgs)} :
                      tileImgs' = r.imgs /\ tileCall' = Some(r.call)
                 /\ layers' = [layers EXCEPT !.tile = tileLayerTransform(fs, currentTransform, @)]
                 /\ UNCHANGED display
            ELSE /\ display' = updateSymbology(features, fs, currentTransform.k)
                 /\ UNCHANGED <<tileImgs, tileCall, layers>>
    /\ urlState' = scheduleUrlWrite(urlState, currentTransform)
    /\ frames' = scheduleUrlWriteFrames(urlState, frames)
    /\ UNCHANGED <<search, shared, page, handler>>
    /\ UNCHANGED <<projection, currentTransform>>
    /\ UNCHANGED <<scoreVars, dataVars>>

\* an animation-frame callback of scheduleUrlWrite runs, lines 136-139
Frame ==
    /\ frames > 0 /\ handler = "idle"
    /\ frames' = frames - 1
    /\ urlState' = [urlState EXCEPT !.pending = FALSE]
    /\ search' = writeUrlState(search, filterState, urlState.transform)
    /\ UNCHANGED <<filterState, shared, page, handler, layers>>
    /\ UNCHANGED <<scoreVars, dataVars, tileVars, symVars>>

LoopNext ==
    \/ \E ok \in BOOLEAN : GeojsonSettles(ok)
    \/ \E ok \in BOOLEAN : LabelsSettle(ok)
    \/ MainResumes
    \/ Resize
    \/ ZoomRestored
    \/ \E t \in LoopTransforms : ZoomGesture(t)
    \/ ZoomSymbology
    \/ ZoomTilesStep
    \/ ZoomUrl
    \/ \E inp \in LoopToggles, checked \in BOOLEAN : LoopToggle(inp[1], inp[2], checked)
    \/ Frame

SpecLoop == LoopInit /\ [][LoopNext]_vars

\* C21: when the dataset fetch has failed, render is never invoked and the
\* error element stands in place of the loading status; when only the label
\* fetch has failed, the map is rendered and its legend names the materials
\* by their raw codes.
C21_LoadFailures ==
    /\ page.geojson = "failed" =>
         /\ renders = 0 /\ ~page.svg /\ IsNull(page.legend)
         /\ page.main = "done" => page.error /\ ~page.status
    /\ (page.geojson = "ok" /\ page.labels = "failed" /\ page.main = "done") =>
         /\ page.svg /\ ~page.error /\ ~page.status /\ renders >= 1
         /\ page.legend = Some(MATERIAL_ORDER \o <<sOther, sUnknown>>)

C21_Witness ==
    /\ page.geojson = "ok" /\ page.labels = "failed" /\ page.main = "done"
    /\ page.svg /\ handler = "idle"
    /\ page.legend = Some(MATERIAL_ORDER \o <<sOther, sUnknown>>)
    /\ page.legend # Some(legendMaterials(LabelTable))

\* C22: for every feature, the pof, cof and riskBin that render caches equal
\* those of compute (class A) on the same material, diameter, install year
\* and length.
C22_CachedScoresAreCompute ==
    call.fn = "mapScore" =>
        LET d == call.out
            m == computeA([materialCode |-> Some(d.matCode), diamMm |-> d.diamMm,
                           installYear |-> d.installYear, lengthM |-> d.lengthM])
        IN  d.pof = m.pof /\ d.cof = m.cof /\ d.riskBin = m.riskBin

\* C23: whenever the basemap is enabled and no handler is running, the tile
\* layer carries the transform of the vector layer, which is the current
\* transform; this holds after the basemap was switched off, the map zoomed
\* and the basemap switched on again, and after a re-render on resize.
C23_LayersInSync ==
    (page.svg /\ handler = "idle" /\ filterState.basemapEnabled) =>
        /\ layers.vector = Some(currentTransform)
        /\ layers.tile = layers.vector

C23_Witness ==
    /\ page.svg /\ handler = "idle" /\ filterState.basemapEnabled
    /\ renders = 2
    /\ currentTransform.k = 8 * Unit
    /\ layers.tile = Some(currentTransform) /\ layers.vector = layers.tile

\* the keys of the img elements of the tile layer
TileKeys == {img.key : img \in tileImgs}

\* the styling and LOD culling of the paths, the vector layer and, the
\* basemap being enabled, the tile layer and its tile set are those of the
\* current transform
CascadeDone ==
    /\ layers.vector = Some(currentTransform)
    /\ display = updateSymbology(features, filterState, currentTransform.k)
    /\ filterState.basemapEnabled =>
         /\ layers.tile = Some(currentTransform)
         /\ Some(TileKeys) = visibleTiles(projection, currentTransform)

\* a step taken while the zoom handler runs is the handler's next statement:
\* the transform, the filters and the dataset are those of the event
CascadeStep ==
    handler # "idle" =>
        /\ handler' = zoomHandlerNext(handler)
        /\ handler = "transform" => layers'.vector = Some(currentTransform)
        /\ handler = "symbology" =>
             /\ layers.vector = Some(currentTransform)
             /\ display' = updateSymbology(features, filterState, currentTransform.k)
        /\ handler = "tiles" =>
             /\ display = updateSymbology(features, filterState, currentTransform.k)
             /\ tileImgs' = updateTiles(projection, filterState, currentTransform, tileImgs).imgs
        /\ UNCHANGED <<currentTransform, filterState, features, renders, search>>

CollapseExpected(x) ==
    IF IsNull(x) THEN Null
    ELSE IF Val(x) <= 20 THEN Some(1)
    ELSE IF Val(x) <= 30 THEN Some(2)
    ELSE IF Val(x) <= 40 THEN Some(3)
    ELSE Some(4)

\* C25: scoreFromFloat01to4 maps every finite x to 1 if x <= 2.0, 2 if
\* x <= 3.0, 3 if x <= 4.0 and 4 otherwise, and a missing or non-finite
\* value to null, in each class that defines it.
C25_CollapseThresholds ==
    call.fn \in {"scoreFromFloat01to4A", "scoreFromFloat01to4C"} =>
        call.out = CollapseExpected(call.args)

\* C25, for the override-capable class alone (lines 918-925): the thresholds
\* hold.
C25_CollapseThresholdsClassC ==
    call.fn = "scoreFromFloat01to4C" => call.out = CollapseExpected(call.args)

\* pofScoreFrom, class A, lines 133-146: the sum that is rounded and
\* clamped, in tenths (the vintage override when there is one)
pofSumA(materialCode, installYear, diamMm) ==
    LET mat == Some(normalizeMaterialA(materialCode))
        vintageOverride == pofVintageOverrideFrom(mat, installYear)
    IN  IF ~IsNull(vintageOverride) THEN 10 * Val(vintageOverride)
        ELSE 10 * pofMaterialBaseFrom(mat) + pofDiameterAdjustmentFrom(mat, diamMm)
                 + 10 * pofAgeAdjustmentFrom(mat, ageYears(installYear))

\* pofScoreFrom, class C, lines 806-858: the score before the status
\* adjustment, in tenths
pofSumC(materialCode, installYear, diamMm) ==
    LET mat == normalizeMaterialC(materialCode)
        age == ageYears(installYear)
        t1 == 10 * baseByMaterialC(mat) + pofSizeUpliftFrom(Some(mat), diamMm)
        t2 == IF IsNull(age) THEN t1
              ELSE t1 + (IF mat = sCI /\ Val(age) > 50 THEN 10 ELSE 0)
                      + (IF mat = sAC /\ Val(age) > 50 THEN 20 ELSE 0)
    IN  IF ~IsNull(installYear) /\ mat \in {sPCI, sPCCP}
        THEN IF Val(installYear) >= 1972 /\ Val(installYear) <= 1978 THEN Max2(t2, 40)
             ELSE IF Val(installYear) >= 1970 /\ Val(installYear) <= 1980 THEN Max2(t2, 30)
             ELSE t2
        ELSE t2

\* pofScoreFromDerived, map.js lines 227-249: the score before the status
\* adjustment, in tenths
pofSumDerived(derived) ==
    LET ageScore == IF derived.ageBin = binLT20 THEN 1
                    ELSE IF derived.ageBin = bin20_50 THEN 2
                    ELSE IF derived.ageBin = bin50_80 THEN 3
                    ELSE IF derived.ageBin = binGE80 THEN 4
                    ELSE 2
        matAdj == IF derived.matCode \in {sPVC, sPE} THEN -1
                  ELSE IF derived.matCode \in {sCI, sAC, sECI, sPCI} THEN 1
                  ELSE 0
    IN  10 * (ageScore + matAdj)

\* the status text s (Null: none) contains a marker
HasMarker(s) == statusBump(ToUpperCase(Trim(StrOf(s)))) > 0

\* a call that scores the likelihood by the rules
IsPofCall ==
    \/ call.fn = "pofScoreFromA"
    \/ call.fn = "computeC" /\ call.out.pofSource = "doc"
    \/ call.fn = "mapScore"

\* of a likelihood call: the pof returned, the pof of the same pipe without a
\* status (free), the sum before the status adjustment and the status text
PofCase ==
    IF call.fn = "pofScoreFromA"
    THEN [pof |-> call.out,
          free |-> pofScoreFromA(call.args.materialCode, call.args.installYear, call.args.diamMm),
          sum |-> pofSumA(call.args.materialCode, call.args.installYear, call.args.diamMm),
          status |-> call.args.statusInd]
    ELSE IF call.fn = "computeC"
    THEN [pof |-> call.out.pof,
          free |-> pofScoreFromC(call.args.materialCode, call.args.installYear, Null,
                                 call.args.diamMm),
          sum |-> pofSumC(call.args.materialCode, call.args.installYear, call.args.diamMm),
          status |-> call.args.statusInd]
    ELSE [pof |-> call.out.pof,
          free |-> DeriveFeature([call.args EXCEPT !.status_ind = Null]).pof,
          sum |-> pofSumDerived(call.out),
          status |-> call.args.status_ind]

\* the status adjustment on the case c
StatusAdjusts(c) ==
    /\ c.pof = clamp(RoundTenths(c.sum + (IF HasMarker(c.status) THEN 10 ELSE 0)), 1, 4)
    /\ c.pof >= c.free /\ c.pof <= c.free + 1
    /\ ~HasMarker(c.status) => c.pof = c.free

\* C26: in every version of the likelihood score, a status text with a marker
\* (ABAND, OUT, INACT) adds exactly 1 to the sum before rounding and clamping,
\* so the pof is never lower than, and at most one level above, the pof of
\* the same pipe without a marker; a status without a marker adds 0.
C26_StatusAdjustment == IsPofCall => StatusAdjusts(PofCase)

\* C26, for the override-capable class (806-866) and map.js (220-258) alone:
\* the status adjustment holds.
C26_StatusAdjustmentWhereImplemented ==
    (IsPofCall /\ call.fn # "pofScoreFromA") => StatusAdjusts(PofCase)

\* a call where the marker raised the pof by one level
C26_RaisedByMarker ==
    /\ IsPofCall /\ call.fn = "computeC"
    /\ HasMarker(PofCase.status) /\ PofCase.pof = PofCase.free + 1

\* a call that scores the consequence by the rules
IsCofCall ==
    \/ call.fn = "computeA"
    \/ call.fn = "computeC" /\ call.out.cofSource = "doc"
    \/ call.fn = "mapScore"

\* of a consequence call: the cof returned, the cof of the same pipe with an
\* unknown length (short) and the length in 1/Unit (Null: unknown)
CofCase ==
    IF call.fn = "computeA"
    THEN [cof |-> call.out.cof,
          short |-> computeA([call.args EXCEPT !.lengthM = Null]).cof,
          lengthM |-> call.args.lengthM]
    ELSE IF call.fn = "computeC"
    THEN [cof |-> call.out.cof,
          short |-> consequenceScoreFromC(call.args.materialCode, call.args.diamMm, Null),
          lengthM |-> call.args.lengthM]
    ELSE [cof |-> call.out.cof,
          short |-> DeriveFeature([call.args EXCEPT !.length = Null]).cof,
          lengthM |-> call.out.lengthM]

\* the length uplift on the case c
LengthUplifts(c) ==
    IF ~IsNull(c.lengthM) /\ Val(c.lengthM) >= 500 * Unit
    THEN c.cof = Min2(4, c.short + 1)
    ELSE c.cof = c.short

\* C27: in every version of the consequence score, the cof of a segment of
\* 500 m or more is min(4, c + 1), c being the cof of the same pipe with an
\* unknown or shorter length; a shorter or unknown length adds 0.
C27_LengthUplift == IsCofCall => LengthUplifts(CofCase)

\* C27, for the override-capable class (868-895) and map.js (260-278) alone:
\* the length uplift holds.
C27_LengthUpliftWhereImplemented ==
    (IsCofCall /\ call.fn # "computeA") => LengthUplifts(CofCase)

\* a call where a length of 500 m raised the cof by one level, and the
\* length just below did not
C27_RaisedByLength ==
    /\ IsCofCall /\ call.fn = "computeC"
    /\ call.args.lengthM = Mm(500) /\ CofCase.cof = CofCase.short + 1
    /\ computeRuleC([call.args EXCEPT !.lengthM = Some(500 * Unit - 1)]).cof = CofCase.short

\* the diameter score of the specification: d in 1/Unit, Null for none
DiamScore(d) ==
    IF IsNull(d) THEN 2
    ELSE IF Val(d) <= 150 * Unit THEN 1
    ELSE IF Val(d) <= 250 * Unit THEN 2
    ELSE IF Val(d) <= 400 * Unit THEN 3
    ELSE 4

\* the material floors and caps on the cof of a pipe of material mat and
\* diameter d
FloorsAndCaps(mat, d, cof) ==
    IF mat \in {sPCCP, sPCI} THEN cof = 4
    ELSE IF mat \in {sCU, sCOPPER} THEN cof = 1
    ELSE IF mat \in {sPVC, sPE, sHDPE} THEN cof <= 3
    ELSE IF mat \in {sCI, sDI, sPDI, sYDI} THEN cof >= 2
    ELSE IF mat \in {sST, sSTEEL} /\ ~IsNull(d) /\ Val(d) >= 400 * Unit THEN cof >= 3
    ELSE cof = DiamScore(d)

\* a rule-based compute call whose cof has no length uplift
IsUnliftedCall ==
    /\ IsRuleCall
    /\ IsNull(call.args.lengthM) \/ Val(call.args.lengthM) < 500 * Unit

\* C28: for every diameter, the cof before any length uplift is 4 for the
\* PCCP family, 1 for copper, at most 3 for plastics, at least 2 for cast and
\* ductile iron, at least 3 for steel of 400 mm or more, and the diameter
\* score for every other material, in both classes.
C28_FloorsAndCaps ==
    (IsRuleCall /\ IsNull(call.args.lengthM)) =>
        FloorsAndCaps(CallMaterial, call.args.diamMm, call.out.cof)

\* C28 less the iron floor and the plastics cap in the override-capable
\* class, and less asbestos cement in class A: what both classes do
C28_FloorsAndCapsInCode ==
    (IsUnliftedCall
        /\ (call.fn = "computeC" =>
              CallMaterial \notin {sCI, sDI, sPDI, sYDI, sPVC, sPE, sHDPE})
        /\ (call.fn = "computeA" => CallMaterial # sAC))
    => FloorsAndCaps(CallMaterial, call.args.diamMm, call.out.cof)

\* a step of the zoom handler (ZoomRestored, ZoomSymbology, ZoomTilesStep,
\* ZoomUrl), told by the statement it leaves
HandlerRuns == handler # "idle" /\ handler' = zoomHandlerNext(handler)

\* a step of Frame, told by the callback it takes off the waiting ones
FrameRuns == handler = "idle" /\ frames > 0 /\ frames' = frames - 1

\* a handler that has started runs its statements to completion, and the
\* browser runs a requested animation-frame callback at its next frame,
\* however many events arrive before and after
SpecLoopFair ==
    /\ LoopInit /\ [][LoopNext]_vars
    /\ WF_handler(HandlerRuns)
    /\ SF_frames(FrameRuns)

\* the URL is the encoding of the current transform and filter state
UrlCurrent == search = writeUrlState(search, filterState, currentTransform)

\* the callback that runs writes the state current at that moment
FrameWritesCurrent ==
    (urlState.pending /\ ~urlState'.pending) =>
        /\ search' = writeUrlState(search, filterState, currentTransform)
        /\ UNCHANGED <<filterState, currentTransform>>

\* C29: at most one animation-frame callback of scheduleUrlWrite is pending,
\* urlState._pending being true exactly while one is; the callback that runs
\* writes the transform and filter state current at that moment; and whenever
\* a write is pending the URL eventually is the encoding of the latest state
\* with no write pending.
C29_UrlWritesCoalesce ==
    /\ [](frames <= 1 /\ (urlState.pending <=> frames = 1))
    /\ [][FrameWritesCurrent]_vars
    /\ (urlState.pending ~> (~urlState.pending /\ UrlCurrent))

\* C29 witness: since the page was opened the first render, a zoom and two
\* toggles have each called scheduleUrlWrite; one callback is pending and
\* the URL is still the one the page was opened with
C29_Witness ==
    /\ urlState.pending /\ frames = 1 /\ handler = "idle"
    /\ search = <<>> /\ ~UrlCurrent
    /\ currentTransform.k = 8 * Unit
    /\ filterState.overlay = sRisk /\ ~filterState.basemapEnabled

\* the labels of the legend's filter boxes
DiameterLabels == {binLE150, bin200_250, bin300, bin400, bin500_600, binGE750, sUnknown}

AgeLabels == {binLT20, bin20_50, bin50_80, binGE80, sUnknown}

MaterialLabels == {MATERIAL_ORDER[i] : i \in 1..Len(MATERIAL_ORDER)} \cup {sOther, sUnknown}

\* C30: in every view state the diameter, age and material filter sets hold
\* only labels of their universes (the seven diameter bins, the five age
\* bins, the known material codes with Other and Unknown), also after dia,
\* age and mat have been decoded from a URL.
C30_FilterLabelsKnown ==
    /\ Members(filterState.diameterBins) \subseteq DiameterLabels
    /\ Members(filterState.ageBins) \subseteq AgeLabels
    /\ Members(filterState.materials) \subseteq MaterialLabels

=============================================================================
